---------------------------- MODULE Spec2Model ----------------------------
(***************************************************************************)
(* A model of the CV reader (app/services/cv_parser.py): column-aware text *)
(* extraction from a page stream, the rule-based section parsers, and the  *)
(* content-addressed result cache wrapped around them.                     *)
(*                                                                         *)
(* Conventions.                                                            *)
(*  - Python str is a TLA+ string; characters are read with SubSeq.        *)
(*  - Optional[T] is a tuple of length 0 (None) or 1 (the value).          *)
(*  - Page coordinates are rationals with denominator 2, stored doubled    *)
(*    ("half units"): 21 stands for 10.5.  Python's int() truncates.       *)
(*  - A dataclass instance is a TLA+ record; a dict is the sequence of   *)
(*    its items in insertion order; plain data on its way to and from     *)
(*    JSON carries its type (PyNone, PyStr, PyList, PyDict).               *)
(*                                                                         *)
(* The module holds several machines over one list of variables; each      *)
(* specification runs one of them and leaves the others idle.              *)
(*   SpecSplit      detect_column_split on one page                        *)
(*   SpecExtract    extract_text_from_pdf on one document                  *)
(*   SpecRoundTrip  dataclass_to_dict, json and _reconstruct_cv_data       *)
(*   Spec           parse_cv requests against the cache                    *)
(*   SpecLogic      parse_cv_logic on one document                         *)
(*   SpecSections   split_into_sections on one text                        *)
(*   SpecWork       parse_work_experience on one section                   *)
(*   SpecEducation  parse_education on one section                         *)
(*   SpecDates      the date range pattern on one line                     *)
(*   SpecWorkCursors  parse_work_experience, both loops in steps           *)
(*   SpecCertifications  parse_certifications on one section               *)
(*   SpecSkills  parse_technical_skills on one section                     *)
(*   SpecProjects  parse_projects on one section                           *)
(*   SpecContact  extract_contact_info on one text                         *)
(***************************************************************************)
EXTENDS Integers, Sequences, FiniteSets, TLC

VARIABLES
    \* ---- detect_column_split run on one page
    page,        \* the page handed to detect_column_split
    split_x,     \* its return value (Optional, half units)
    split_pc,    \* "idle" | "call" | "returned"
    \* ---- extract_text_from_pdf run on one document
    pdf,         \* the document: a sequence of pages
    page_no,     \* index of the next page of the loop
    text,        \* the accumulator  text
    ext_pc,      \* "idle" | "loop" | "returned"
    \* ---- one CVData on its way through the cache's serialized form
    trip,        \* the value at each stage, and the stage reached
    \* ---- parse_cv requests
    redis,       \* self.redis: None, or the client
    store,       \* what the cache backend holds: key -> value and time to live
    calls,       \* each request: where it is in parse_cv, and its locals
    foreign,     \* whether another client has written into the cache
    file,        \* the file of the requests: its bytes and its document
    logic,       \* parse_cv_logic run on one document
    \* ---- one run of a section parser on one text
    sect,        \* split_into_sections: the lines of the text, and the result
    work,        \* parse_work_experience: the lines, the loop's locals, the result
    edu,         \* parse_education: the lines, the loop's locals, the result
    dated,       \* the date range pattern searched in one line
    \* ---- one run of a parser of lines on one text
    skl,         \* parse_technical_skills: the lines, the loop's locals, the result
    proj,        \* parse_projects: the lines, the loop's locals, the result
    cert,        \* parse_certifications: the lines, the loop's locals, the result
    cont         \* extract_contact_info: the text, its first lines, the result

split_vars == <<page, split_x, split_pc>>
extract_vars == <<pdf, page_no, text, ext_pc>>
trip_vars == <<trip>>
cache_vars == <<redis, store, calls, foreign, file, logic>>
parse_vars == <<sect, work, edu, dated>>
list_vars == <<skl, proj, cert, cont>>
vars == <<split_vars, extract_vars, trip_vars, cache_vars, parse_vars, list_vars>>

-----------------------------------------------------------------------------
(* Python values *)

None == << >>
Some(v) == <<v>>

\* A local name: v = x, then the code F that reads v.  (x is evaluated at
\* most once, when F first needs it.)
With(x, F(_)) == F(x)

Min(a, b) == IF a <= b THEN a ELSE b
Max(a, b) == IF a >= b THEN a ELSE b

\* int() of a number given in half units: truncation toward zero.
int(h) == IF h >= 0 THEN h \div 2 ELSE -((-h) \div 2)

-----------------------------------------------------------------------------
(* Python str *)

\* Characters outside ASCII are written with stand-ins that occur nowhere
\* else in the model's texts:  ~ for the en dash,  ^ for the em dash,
\* * for the bullet,  $ for the middle dot.
EnDash == "~"
EmDash == "^"
Bullet == "*"
MidDot == "$"

\* The character at position i, counted from 1; "" past the ends.
Chr(s, i) == IF i >= 1 /\ i <= Len(s) THEN SubSeq(s, i, i) ELSE ""

UpperCase == "ABCDEFGHIJKLMNOPQRSTUVWXYZ"
LowerCase == "abcdefghijklmnopqrstuvwxyz"
Chars(s) == { Chr(s, i) : i \in 1 .. Len(s) }
Upper == Chars(UpperCase)
Lower == Chars(LowerCase)
Digit == Chars("0123456789")
\* \s
Space == {" ", "\t", "\n", "\r", "\f"}
\* \w
WordChar == Upper \cup Lower \cup Digit \cup {"_"}

LowerOf(c) ==
    IF c \in Upper
    THEN Chr(LowerCase, CHOOSE i \in 1 .. 26 : Chr(UpperCase, i) = c)
    ELSE c
UpperOf(c) ==
    IF c \in Lower
    THEN Chr(UpperCase, CHOOSE i \in 1 .. 26 : Chr(LowerCase, i) = c)
    ELSE c

\* s.lower()  (halving keeps the evaluation shallow)
RECURSIVE lower(_)
lower(s) ==
    IF Len(s) = 0 THEN ""
    ELSE IF Len(s) = 1 THEN LowerOf(s)
    ELSE LET h == Len(s) \div 2
         IN  lower(SubSeq(s, 1, h)) \o lower(SubSeq(s, h + 1, Len(s)))

\* The least element of a non-empty set of integers.
Least(S) == CHOOSE n \in S : \A m \in S : n <= m
Greatest(S) == CHOOSE n \in S : \A m \in S : n >= m

\* The least k of i .. n with P(k), or 0: looked for in stretches of 1, 2,
\* 4, ... positions, so that a near one is found without looking far.
RECURSIVE FirstIn(_, _, _, _)
FirstIn(P(_), i, n, w) ==
    IF i > n THEN 0
    ELSE LET hits == { k \in i .. Min(i + w - 1, n) : P(k) }
         IN  IF hits # {} THEN Least(hits) ELSE FirstIn(P, i + w, n, 2 * w)
FirstFrom(P(_), i, n) == FirstIn(P, i, n, 1)
\* The greatest k of i .. n with P(k), or 0
RECURSIVE LastIn(_, _, _, _)
LastIn(P(_), i, n, w) ==
    IF i > n THEN 0
    ELSE LET hits == { k \in Max(n - w + 1, i) .. n : P(k) }
         IN  IF hits # {} THEN Greatest(hits) ELSE LastIn(P, i, n - w, 2 * w)
LastFrom(P(_), i, n) == LastIn(P, i, n, 1)

\* s.startswith(t) at an offset: s[i:i+len(t)] == t, i counted from 1.
StartsAt(s, t, i) == i + Len(t) - 1 <= Len(s) /\ SubSeq(s, i, i + Len(t) - 1) = t
startswith(s, t) == StartsAt(s, t, 1)

\* s.find(t) from position i on, counted from 1; 0 when t does not occur.
FindFrom(s, t, i) ==
    LET here(j) == StartsAt(s, t, j)
    IN  FirstFrom(here, i, Len(s) - Len(t) + 1)
find(s, t) == FindFrom(s, t, 1)

\* t in s
contains(s, t) == find(s, t) # 0

\* s.split(sep)
RECURSIVE split(_, _)
split(s, sep) ==
    LET k == find(s, sep)
    IN  IF k = 0 THEN <<s>>
        ELSE <<SubSeq(s, 1, k - 1)>> \o split(SubSeq(s, k + Len(sep), Len(s)), sep)

\* s.split(sep, 1)
split1(s, sep) ==
    LET k == find(s, sep)
    IN  IF k = 0 THEN <<s>>
        ELSE <<SubSeq(s, 1, k - 1), SubSeq(s, k + Len(sep), Len(s))>>

\* s.strip(chars)
stripOf(s, cs) ==
    LET keep(i) == Chr(s, i) \notin cs
        first == FirstFrom(keep, 1, Len(s))
    IN  IF first = 0 THEN "" ELSE SubSeq(s, first, LastFrom(keep, 1, Len(s)))
\* s.strip()
strip(s) == stripOf(s, Space)

\* sep.join(parts)
RECURSIVE join(_, _)
join(sep, parts) ==
    IF parts = << >> THEN ""
    ELSE IF Len(parts) = 1 THEN parts[1]
    ELSE parts[1] \o sep \o join(sep, Tail(parts))

\* [f for x in xs if keep]  helpers on sequences
RECURSIVE SelectStr(_)
SelectStr(xs) ==      \* the non-empty strings of xs, in order
    IF xs = << >> THEN << >>
    ELSE (IF xs[1] # "" THEN <<xs[1]>> ELSE << >>) \o SelectStr(Tail(xs))
StripAll(xs) == [i \in 1 .. Len(xs) |-> strip(xs[i])]

\* any(k in s for k in keywords)
AnyIn(s, keywords) == \E k \in keywords : contains(s, k)

-----------------------------------------------------------------------------
(* Python re: a backtracking matcher with re's leftmost, first-alternative, *)
(* greedy semantics.  A pattern is a tree of the nodes below.               *)

Set(cs) == [k |-> "set", cs |-> cs, neg |-> FALSE]    \* [...]  one character of cs
NotSet(cs) == [k |-> "set", cs |-> cs, neg |-> TRUE] \* [^...]
Cat(rs) == [k |-> "cat", rs |-> rs]                 \* r1 r2 ...
Alt(rs) == [k |-> "alt", rs |-> rs]                 \* r1|r2|...
Rep(r, lo, hi) == [k |-> "rep", r |-> r, lo |-> lo, hi |-> hi]   \* r{lo,hi}
Unbounded == -1
Star(r) == Rep(r, 0, Unbounded)                     \* r*
Plus(r) == Rep(r, 1, Unbounded)                     \* r+
Opt(r) == Rep(r, 0, 1)                              \* r?
Bol == [k |-> "bol"]                                \* ^
Eol == [k |-> "eol"]                                \* $
Wb == [k |-> "wb"]                                  \* \b
Open(g) == [k |-> "open", g |-> g]                  \* (  of group g
Close(g) == [k |-> "close", g |-> g]                \* )  of group g
Group(g, r) == Cat(<<Open(g), r, Close(g)>>)
\* a literal string, and the same under re.IGNORECASE (kept in lower case)
Lit(str) == [k |-> "lit", str |-> str, fold |-> FALSE]
LitI(str) == [k |-> "lit", str |-> lower(str), fold |-> TRUE]
\* s[i:i+len(t)].lower() == t, for t in lower case, i counted from 1
FoldStartsAt(s, t, i) ==
    /\ i + Len(t) - 1 <= Len(s)
    /\ \A k \in 1 .. Len(t) : LowerOf(Chr(s, i + k - 1)) = Chr(t, k)
\* a character class under re.IGNORECASE
CaseFold(cs) == cs \cup { LowerOf(c) : c \in cs } \cup { UpperOf(c) : c \in cs }

MaxGroups == 2
NoGroups == [g \in 1 .. MaxGroups |-> [from |-> 0, to |-> 0]]
NoMatch == [ok |-> FALSE, from |-> 0, to |-> 0, groups |-> NoGroups]

InClass(r, c) == (c \in r.cs) # r.neg

\* How many characters of s from position i on are of the class r, at most
\* hi of them.
RunLength(r, s, i, hi) ==
    LET room == Len(s) - i + 1
        lim == IF hi = Unbounded THEN room ELSE Min(hi, room)
        stops(n) == ~InClass(r, Chr(s, i + n - 1))
        stop == FirstFrom(stops, 1, lim)
    IN  IF stop = 0 THEN Max(lim, 0) ELSE stop - 1

\* Match the patterns of stack, one after the other, from position i of s
\* (positions count from 1; to is the position after the match).  The
\* alternatives of r1|r2 are tried in order and a repetition takes as many
\* as it can, giving back one at a time, as re does.
RECURSIVE MatchAt(_, _, _)
\* r1|r2|...: the first alternative, from the j-th on, with which the rest
\* matches too.
RECURSIVE AltFrom(_, _, _, _, _)
AltFrom(rs, j, rest, s, i) ==
    IF j > Len(rs) THEN NoMatch
    ELSE With(MatchAt(<<rs[j]>> \o rest, s, i), LAMBDA m :
             IF m.ok THEN m ELSE AltFrom(rs, j + 1, rest, s, i))
\* [...]{lo,hi}: the greatest number of characters, n at most and lo at
\* least, after which the rest matches.
RECURSIVE TakeFrom(_, _, _, _, _)
TakeFrom(n, lo, rest, s, i) ==
    IF n < lo THEN NoMatch
    ELSE With(MatchAt(rest, s, i + n), LAMBDA m :
             IF m.ok THEN m ELSE TakeFrom(n - 1, lo, rest, s, i))
MatchAt(stack, s, i) ==
    IF stack = << >>
    THEN [ok |-> TRUE, from |-> i, to |-> i, groups |-> NoGroups]
    ELSE
    LET r == Head(stack)
        rest == Tail(stack)
    IN  CASE r.k = "set" ->
               IF i <= Len(s) /\ InClass(r, Chr(s, i))
               THEN MatchAt(rest, s, i + 1) ELSE NoMatch
          [] r.k = "lit" ->
               IF (IF r.fold THEN FoldStartsAt(s, r.str, i) ELSE StartsAt(s, r.str, i))
               THEN MatchAt(rest, s, i + Len(r.str)) ELSE NoMatch
          [] r.k = "cat" -> MatchAt(r.rs \o rest, s, i)
          [] r.k = "alt" -> AltFrom(r.rs, 1, rest, s, i)
          [] r.k = "rep" /\ r.r.k = "set" ->
               TakeFrom(RunLength(r.r, s, i, r.hi), r.lo, rest, s, i)
          [] r.k = "rep" /\ r.r.k # "set" ->
               LET again == Rep(r.r, Max(0, r.lo - 1),
                                IF r.hi = Unbounded THEN Unbounded ELSE r.hi - 1)
                   more == IF r.hi = 0 THEN NoMatch
                           ELSE MatchAt(<<r.r, again>> \o rest, s, i)
               IN  IF more.ok THEN more
                   ELSE IF r.lo <= 0 THEN MatchAt(rest, s, i) ELSE NoMatch
          [] r.k = "bol" -> IF i = 1 THEN MatchAt(rest, s, i) ELSE NoMatch
          [] r.k = "eol" ->
               IF i = Len(s) + 1 \/ (i = Len(s) /\ Chr(s, i) = "\n")
               THEN MatchAt(rest, s, i) ELSE NoMatch
          [] r.k = "wb" ->
               LET before == i > 1 /\ Chr(s, i - 1) \in WordChar
                   after == i <= Len(s) /\ Chr(s, i) \in WordChar
               IN  IF before # after THEN MatchAt(rest, s, i) ELSE NoMatch
          [] r.k = "open" ->
               With(MatchAt(rest, s, i), LAMBDA m :
                   IF m.ok THEN [m EXCEPT !.groups[r.g].from = i] ELSE m)
          [] r.k = "close" ->
               With(MatchAt(rest, s, i), LAMBDA m :
                   IF m.ok THEN [m EXCEPT !.groups[r.g].to = i] ELSE m)

\* re.match(r, s)
match(r, s) == [MatchAt(<<r>>, s, 1) EXCEPT !.from = 1]

\* re.search(r, s) from position i on: the leftmost position that matches.
SearchFrom(r, s, i) ==
    LET matches(j) == MatchAt(<<r>>, s, j).ok
        first == FirstFrom(matches, i, Len(s) + 1)
    IN  IF first = 0 THEN NoMatch
        ELSE [MatchAt(<<r>>, s, first) EXCEPT !.from = first]
search(r, s) == SearchFrom(r, s, 1)

\* m.group(g), m.group(0)
group(m, s, g) == SubSeq(s, m.groups[g].from, m.groups[g].to - 1)
group0(m, s) == SubSeq(s, m.from, m.to - 1)

\* re.findall(r, s) for a pattern without groups: the matched texts, left
\* to right, not overlapping.
RECURSIVE FindAllFrom(_, _, _)
FindAllFrom(r, s, i) ==
    With(SearchFrom(r, s, i), LAMBDA m :
        IF ~m.ok THEN << >>
        ELSE <<group0(m, s)>>
             \o FindAllFrom(r, s, IF m.to > m.from THEN m.to ELSE m.to + 1))
findall(r, s) == FindAllFrom(r, s, 1)

\* re.sub(r, '', s): s without the matches of r.
RECURSIVE SubFrom(_, _, _)
SubFrom(r, s, i) ==
    With(SearchFrom(r, s, i), LAMBDA m :
        IF ~m.ok THEN SubSeq(s, i, Len(s))
        ELSE SubSeq(s, i, m.from - 1)
             \o (IF m.to > m.from THEN SubFrom(r, s, m.to)
                 ELSE IF m.to > Len(s) THEN ""
                 ELSE Chr(s, m.to) \o SubFrom(r, s, m.to + 1)))
sub(r, s) == SubFrom(r, s, 1)

-----------------------------------------------------------------------------
(* The patterns of the reader *)

Alnum == Upper \cup Lower \cup Digit
AnyCase == Upper \cup Lower
Digits(lo, hi) == Rep(Set(Digit), lo, hi)

\* self.email_pattern
email_pattern ==
    Cat(<<Wb, Plus(Set(Alnum \cup {".", "_", "%", "+", "-"})), Set({"@"}),
          Plus(Set(Alnum \cup {".", "-"})), Set({"."}),
          Rep(Set(AnyCase \cup {"|"}), 2, Unbounded), Wb>>)

\* self.phone_pattern
PhoneSep == Opt(Set({"-", "."} \cup Space))
phone_pattern ==
    Cat(<<Opt(Cat(<<Opt(Set({"+"})), Digits(1, 3), PhoneSep>>)),
          Opt(Cat(<<Opt(Set({"("})), Digits(2, 4), Opt(Set({")"})), PhoneSep>>)),
          Digits(3, 4), PhoneSep, Digits(3, 4)>>)

\* self.linkedin_pattern, self.github_pattern, used with re.IGNORECASE
UrlHead == Cat(<<Opt(Cat(<<LitI("http"), Opt(LitI("s")), Lit("://")>>)),
                 Opt(LitI("www."))>>)
UrlName == Plus(Set(Alnum \cup {"_", "-"}))
linkedin_pattern == Cat(<<UrlHead, LitI("linkedin.com/in/"), UrlName, Opt(Set({"/"}))>>)
github_pattern == Cat(<<UrlHead, LitI("github.com/"), UrlName, Opt(Set({"/"}))>>)

\* r'^[A-Z][a-zA-Z\s]+$'
name_pattern == Cat(<<Bol, Set(Upper), Plus(Set(AnyCase \cup Space)), Eol>>)

\* r'\b(?:Indonesia|Malaysia|Singapore|India|USA|UK)\b' with re.IGNORECASE
Countries == <<"Indonesia", "Malaysia", "Singapore", "India", "USA", "UK">>
location_pattern ==
    Cat(<<Wb, Alt([i \in 1 .. Len(Countries) |-> LitI(Countries[i])]), Wb>>)

\* The date range of parse_work_experience, used with re.IGNORECASE:
\* ((?:Jan|...|Dec)[a-z]*\s+\d{4}|\d{4})\s*[en dash, em dash, -]\s*
\* ((?:Jan|...|Dec)[a-z]*\s+\d{4}|\d{4}|Present|Current)
MonthNames == <<"Jan", "Feb", "Mar", "Apr", "May", "Jun",
                "Jul", "Aug", "Sep", "Oct", "Nov", "Dec">>
MonthYear ==
    Cat(<<Alt([i \in 1 .. Len(MonthNames) |-> LitI(MonthNames[i])]),
          Star(Set(AnyCase)), Plus(Set(Space)), Digits(4, 4)>>)
DateDash == Cat(<<Star(Set(Space)), Set({EnDash, EmDash, "-"}), Star(Set(Space))>>)
\* (the same, but with no year alone as a start)
DateRangeFromMonth ==
    Cat(<<Group(1, MonthYear), DateDash,
          Group(2, Alt(<<MonthYear, Digits(4, 4), LitI("Present"), LitI("Current")>>))>>)
date_range_pattern ==
    Cat(<<Group(1, Alt(<<MonthYear, Digits(4, 4)>>)), DateDash,
          Group(2, Alt(<<MonthYear, Digits(4, 4), LitI("Present"), LitI("Current")>>))>>)
\* The date range of parse_education: the same without Current.
education_date_pattern ==
    Cat(<<Group(1, Alt(<<MonthYear, Digits(4, 4)>>)), DateDash,
          Group(2, Alt(<<MonthYear, Digits(4, 4), LitI("Present")>>))>>)

\* r'\d{4}'
year_pattern == Digits(4, 4)
\* r'([A-Z][a-z]{2}\s+\d{4})'
month_token_pattern ==
    Group(1, Cat(<<Set(Upper), Rep(Set(Lower), 2, 2), Plus(Set(Space)), Digits(4, 4)>>))

\* The section headings of split_into_sections, in the order of the dict.
SectionNames == <<"summary", "technical_skills", "experience", "education",
                  "projects", "certifications", "volunteering">>
SectionTitles ==
    [summary |-> <<"Summary", "Profile", "About", "Objective">>,
     technical_skills |-> <<"Technical Skills", "Skills", "Competencies">>,
     experience |-> <<"Experience", "Work Experience", "Employment",
                      "Professional Experience">>,
     education |-> <<"Education", "Academic Background", "Qualifications">>,
     projects |-> <<"Projects", "Personal Projects", "Key Projects">>,
     certifications |-> <<"Certification", "Certifications", "Certificates">>,
     volunteering |-> <<"Volunteering", "Volunteer", "Community">>]
\* r'^(?:A|B|C)\s*$' with re.IGNORECASE
section_pattern(name) ==
    LET titles == SectionTitles[name]
    IN  Cat(<<Bol, Alt([i \in 1 .. Len(titles) |-> LitI(titles[i])]),
              Star(Set(Space)), Eol>>)

-----------------------------------------------------------------------------
(* Python dict and list helpers *)

\* A dict is the sequence of its items [k, v] in insertion order, no key
\* twice.   {} ; k in d ; d[k] ; d.get(k, default) ; d[k] = v ; del d[k]
EmptyDict == << >>
Keys(d) == { d[n].k : n \in 1 .. Len(d) }
Has(d, k) == k \in Keys(d)
At(d, k) == d[CHOOSE n \in 1 .. Len(d) : d[n].k = k].v
Get(d, k, default) == IF Has(d, k) THEN At(d, k) ELSE default
Put(d, k, v) ==
    IF Has(d, k)
    THEN [n \in 1 .. Len(d) |-> IF d[n].k = k THEN [k |-> k, v |-> v] ELSE d[n]]
    ELSE Append(d, [k |-> k, v |-> v])
Del(d, k) == SelectSeq(d, LAMBDA item : item.k # k)

\* xs[a:b] with 0 <= a, counted from 0 as in Python
Slice(xs, a, b) == SubSeq(xs, a + 1, Min(b, Len(xs)))

\* The first index of 1 .. n that is in hits, or 0.
FirstOf(hits) == IF hits = {} THEN 0 ELSE Least(hits)

-----------------------------------------------------------------------------
(* extract_contact_info *)

NameBlockers == {"@", "http", "+"}
TitleWords == {"developer", "engineer", "manager"}
NameMaxLen == 50
ContactLines == 15
PhoneMinDigits == 8

\* xs[0] if xs else None
FirstOrNone(xs) == IF xs = << >> THEN None ELSE Some(xs[1])
\* The stripped line at index at, None when at is 0 (no line was taken).
LineOrNone(lines, at) == IF at = 0 THEN None ELSE Some(strip(lines[at]))

\* The name: the first line that passes the tests of the loop.
NameOf(lines) ==
    LineOrNone(lines, FirstOf({ i \in 1 .. Len(lines) :
        With(strip(lines[i]), LAMBDA line :
            /\ line # ""
            /\ Len(line) < NameMaxLen
            /\ ~AnyIn(line, NameBlockers)
            /\ match(name_pattern, line).ok) }))
\* The title: the first of lines[1:5] with a title word.
TitleOf(lines) ==
    LineOrNone(lines, FirstOf({ i \in 2 .. Min(5, Len(lines)) :
        With(strip(lines[i]), LAMBDA line :
            line # "" /\ AnyIn(lower(line), TitleWords)) }))
\* The location: the first line that names a country.
LocationOf(lines) ==
    LineOrNone(lines, FirstOf({ i \in 1 .. Len(lines) :
        search(location_pattern, lines[i]).ok }))
\* The phone: the first match with at least 8 digits.
PhoneOf(phones) ==
    With(FirstOf({ i \in 1 .. Len(phones) :
             Len(sub(NotSet(Digit), phones[i])) >= PhoneMinDigits }),
         LAMBDA at : IF at = 0 THEN None ELSE Some(phones[at]))

ContactOf(lines, txt) ==
    [name |-> NameOf(lines),
     title |-> TitleOf(lines),
     location |-> LocationOf(lines),
     email |-> FirstOrNone(findall(email_pattern, txt)),
     phone |-> PhoneOf(findall(phone_pattern, txt)),
     linkedin |-> FirstOrNone(findall(linkedin_pattern, txt)),
     github |-> FirstOrNone(findall(github_pattern, txt))]

extract_contact_info(txt) == ContactOf(Slice(split(txt, "\n"), 0, ContactLines), txt)

-----------------------------------------------------------------------------
(* split_into_sections *)

\* The section whose heading the stripped line is: the first of the dict
\* whose pattern matches, or None.
HeaderOf(line_stripped) ==
    With({ k \in 1 .. Len(SectionNames) :
             match(section_pattern(SectionNames[k]), line_stripped).ok },
         LAMBDA hits : IF hits = {} THEN None ELSE Some(SectionNames[Least(hits)]))

\* (the same without the test of current_content)
SaveSectionAlways(st) ==
    IF st.current_section # None
    THEN Put(st.sections, st.current_section[1], join("\n", st.current_content))
    ELSE st.sections
\* sections[current_section] = '\n'.join(current_content), when there is a
\* current section with content
SaveSection(st) ==
    IF st.current_section # None /\ st.current_content # << >>
    THEN Put(st.sections, st.current_section[1], join("\n", st.current_content))
    ELSE st.sections

\* One iteration of  for line in lines ; i is the index of the line.
SectionLine(st, line, header) ==
    IF header # None
    THEN [i |-> st.i + 1,
          sections |-> SaveSection(st),
          current_section |-> header,
          current_content |-> << >>]
    ELSE IF st.current_section # None /\ strip(line) # ""
    THEN [st EXCEPT !.i = @ + 1, !.current_content = Append(@, line)]
    ELSE [st EXCEPT !.i = @ + 1]
SectionStep(st, lines) == SectionLine(st, lines[st.i], HeaderOf(strip(lines[st.i])))

RECURSIVE SectionLoop(_, _)
SectionLoop(st, lines) ==
    IF st.i > Len(lines) THEN st ELSE SectionLoop(SectionStep(st, lines), lines)

split_into_sections(txt) ==
    SaveSection(SectionLoop([i |-> 1,
                             sections |-> EmptyDict,
                             current_section |-> None,
                             current_content |-> << >>],
                            split(txt, "\n")))

-----------------------------------------------------------------------------
(* parse_technical_skills *)

\* [item.strip() for item in s.split(',') if item.strip()]
Items(s) == SelectStr(StripAll(split(s, ",")))

\* skills[category] = items, when there are items
PutItems(skills, category, items) ==
    IF items # << >> THEN Put(skills, category, items) ELSE skills
\* skills["General"].extend(items), when there are items
ExtendGeneral(skills, items) ==
    IF items # << >> THEN Put(skills, "General", At(skills, "General") \o items)
    ELSE skills
SkillsLine(skills, line) ==
    IF line = "" THEN skills
    ELSE IF contains(line, ":")
    THEN With(split1(line, ":"), LAMBDA parts :
             PutItems(skills, strip(parts[1]),
                      Items(IF Len(parts) > 1 THEN strip(parts[2]) ELSE "")))
    ELSE ExtendGeneral(skills, Items(line))
SkillsStep(st, lines) ==
    [i |-> st.i + 1, skills |-> SkillsLine(st.skills, strip(lines[st.i]))]

RECURSIVE SkillsLoop(_, _)
SkillsLoop(st, lines) ==
    IF st.i > Len(lines) THEN st ELSE SkillsLoop(SkillsStep(st, lines), lines)

\* if not skills["General"]: del skills["General"]
WithoutEmptyGeneral(skills) ==
    IF At(skills, "General") = << >> THEN Del(skills, "General") ELSE skills

parse_technical_skills(txt) ==
    WithoutEmptyGeneral(SkillsLoop([i |-> 1, skills |-> Put(EmptyDict, "General", << >>)],
                                   split(txt, "\n")).skills)

-----------------------------------------------------------------------------
(* parse_work_experience.  Cursors count lines from 1. *)

WorkExperience(start_date, end_date, position, company, location, responsibilities) ==
    [start_date |-> start_date, end_date |-> end_date, position |-> position,
     company |-> company, location |-> location,
     responsibilities |-> responsibilities]

pos_keywords == {"developer", "engineer", "manager", "lead", "head", "intern",
                 "specialist", "consultant", "director", "officer", "analyst"}
LookAhead == 3
LocationTrim == {" ", ",", MidDot, Bullet, "|"}

\* (the same, but resuming one line late: a date line right after is lost)
DateLineSkipping(lines, i) ==
    LET hits == { k \in i .. Min(i + LookAhead - 1, Len(lines)) :
                      search(date_range_pattern, strip(lines[k])).ok }
    IN  IF hits = {} THEN 0 ELSE Greatest(hits)
\* for offset in range(3): the first of the lines i, i+1, i+2 whose stripped
\* text holds a date range; 0 when none does.
DateLineFrom(lines, i) ==
    FirstOf({ k \in i .. Min(i + LookAhead - 1, Len(lines)) :
                  search(date_range_pattern, strip(lines[k])).ok })

\* position and company of  "position | company"  or  "position at company"
BySeparator(s, sep) ==
    With(split(s, sep), LAMBDA parts :
        [position |-> strip(parts[1]), company |-> strip(parts[2])])

\* A header that may hold  "position | company"  or  "position at company"
SeparatedOr(s, otherwise) ==
    IF contains(s, "|") THEN BySeparator(s, "|")
    ELSE IF contains(s, " at ") THEN BySeparator(s, " at ")
    ELSE otherwise

\* (the same, but always company then position)
TwoLinesCompanyFirst(l1, l2, l1_is_pos, l2_is_pos) ==
    [position |-> l2, company |-> l1]

\* Which of the two header lines is the position
TwoLines(l1, l2, l1_is_pos, l2_is_pos) ==
    IF l1_is_pos /\ ~l2_is_pos
    THEN [position |-> l1, company |-> l2]
    ELSE [position |-> l2, company |-> l1]

HeaderFields(header_lines, date_line) ==
    IF header_lines = << >>
    THEN With(strip(sub(date_range_pattern, date_line)), LAMBDA line_content :
             SeparatedOr(line_content, [position |-> "", company |-> line_content]))
    ELSE IF Len(header_lines) = 1
    THEN With(strip(header_lines[1]), LAMBDA l1 :
             SeparatedOr(l1, IF AnyIn(lower(l1), pos_keywords)
                             THEN [position |-> l1, company |-> ""]
                             ELSE [position |-> "", company |-> l1]))
    ELSE With(strip(header_lines[1]), LAMBDA l1 :
         With(strip(header_lines[2]), LAMBDA l2 :
             TwoLines(l1, l2, AnyIn(lower(l1), pos_keywords),
                              AnyIn(lower(l2), pos_keywords))))

\* (the same, but looking at line j alone)
IsNextJobHere(lines, j) == search(date_range_pattern, lines[j]).ok

\* is_next_job: a date range in one of the lines j, j+1, j+2 as they stand
IsNextJob(lines, j) ==
    \E k \in j .. Min(j + LookAhead - 1, Len(lines)) :
        search(date_range_pattern, lines[k]).ok

CleanBullet(line_j) ==
    IF startswith(line_j, Bullet) \/ startswith(line_j, "-")
    THEN strip(SubSeq(line_j, 2, Len(line_j)))
    ELSE line_j

\* One iteration of  while j < len(lines)
RespLine(st, lines, line_j) ==
    IF line_j = "" THEN [st EXCEPT !.j = @ + 1]
    ELSE IF IsNextJob(lines, st.j) THEN [st EXCEPT !.stop = TRUE]
    ELSE [st EXCEPT !.j = @ + 1,
                    !.responsibilities =
                        With(CleanBullet(line_j), LAMBDA clean_line :
                            IF clean_line # "" THEN Append(@, clean_line) ELSE @)]
RespStep(st, lines) == RespLine(st, lines, strip(lines[st.j]))

RECURSIVE RespLoop(_, _)
RespLoop(st, lines) ==
    IF st.j > Len(lines) \/ st.stop THEN st ELSE RespLoop(RespStep(st, lines), lines)

\* The record of the job whose header starts at line i and whose date line
\* is line date_line_idx
JobFields(date_match, checked, header, location_text, responsibilities) ==
    WorkExperience(group(date_match, checked, 1), group(date_match, checked, 2),
                   header.position, header.company,
                   stripOf(location_text, LocationTrim), responsibilities)
Job(lines, i, date_line_idx, responsibilities) ==
    JobFields(search(date_range_pattern, strip(lines[date_line_idx])),
              strip(lines[date_line_idx]),
              HeaderFields(SubSeq(lines, i, date_line_idx - 1), lines[date_line_idx]),
              strip(sub(date_range_pattern, lines[date_line_idx])),
              responsibilities)

\* One iteration of  while i < len(lines)
WorkLine(st, lines, date_line_idx) ==
    IF strip(lines[st.i]) = "" \/ date_line_idx = 0 THEN [st EXCEPT !.i = @ + 1]
    ELSE With(RespLoop([j |-> date_line_idx + 1, stop |-> FALSE,
                        responsibilities |-> << >>], lines),
              LAMBDA resp :
                  [i |-> resp.j,
                   experiences |->
                       Append(st.experiences,
                              Job(lines, st.i, date_line_idx, resp.responsibilities))])
WorkStep(st, lines) == WorkLine(st, lines, DateLineFrom(lines, st.i))

RECURSIVE WorkLoop(_, _)
WorkLoop(st, lines) ==
    IF st.i > Len(lines) THEN st ELSE WorkLoop(WorkStep(st, lines), lines)

parse_work_experience(txt) ==
    WorkLoop([i |-> 1, experiences |-> << >>], split(txt, "\n")).experiences

-----------------------------------------------------------------------------
(* parse_education.  Cursors count lines from 1. *)

Education(start_date, end_date, degree, institution, location) ==
    [start_date |-> start_date, end_date |-> end_date, degree |-> degree,
     institution |-> institution, location |-> location]

inst_keywords ==
    {"university", "universitas", "institute", "institut", "college", "school",
     "academy", "politeknik", "politech", "campus", "smk", "sma", "high school",
     "universiti"}
degree_keywords ==
    {"bachelor", "master", "diploma", "degree", "phd", "doctor", "associate",
     "sarjana", "magister", "teknik", "computer", "science", "informatics",
     "information", "mca", "b.sc", "m.sc", "b.a", "m.a", "d4", "d3", "siswa",
     "major", "minor", "engineering"}

\* start_date and end_date of the two lines of a record
DatesOf(both, date_match, dates) ==
    IF date_match.ok
    THEN [start_date |-> group(date_match, both, 1),
          end_date |-> group(date_match, both, 2)]
    ELSE IF Len(dates) >= 2
    THEN [start_date |-> dates[1], end_date |-> dates[2]]
    ELSE IF Len(dates) = 1
    THEN [start_date |-> dates[1], end_date |-> "Present"]
    ELSE [start_date |-> "", end_date |-> ""]
EducationDates(both) ==
    DatesOf(both, search(education_date_pattern, both), findall(year_pattern, both))

\* (the same, but only when each of the two looks like the other)
SwapWhenBoth(degree, institution) ==
    AnyIn(lower(degree), inst_keywords) /\ AnyIn(lower(institution), degree_keywords)

\* whether degree and institution change places
SwapDegree(degree, institution) ==
    LET deg_lower == lower(degree)
        inst_lower == lower(institution)
        has_inst_in_deg == AnyIn(deg_lower, inst_keywords)
        has_deg_in_deg == AnyIn(deg_lower, degree_keywords)
        has_deg_in_inst == AnyIn(inst_lower, degree_keywords)
        has_inst_in_inst == AnyIn(inst_lower, inst_keywords)
    IN  \/ has_inst_in_deg /\ has_deg_in_inst
        \/ has_inst_in_deg /\ ~has_deg_in_deg
        \/ has_deg_in_inst /\ ~has_inst_in_inst

\* The record of the degree line  line  and the line after it
EducationOf(d, line, institution, location) ==
    IF SwapDegree(line, institution)
    THEN Education(d.start_date, d.end_date, institution, line, location)
    ELSE Education(d.start_date, d.end_date, line, institution, location)
EducationRecord(line, next_line) ==
    With(StripAll(split(strip(sub(education_date_pattern, next_line)), ",")),
         LAMBDA parts :
             EducationOf(EducationDates(line \o " " \o next_line), line, parts[1],
                             IF Len(parts) > 1 THEN join(", ", Tail(parts)) ELSE ""))

\* (the same, but going on at the line after the degree line)
EducationLineByOne(st, lines, line) ==
    IF line = "" \/ search(year_pattern, line).ok \/ st.i + 1 > Len(lines)
    THEN [st EXCEPT !.i = @ + 1]
    ELSE [i |-> st.i + 1,
          education_list |->
              Append(st.education_list,
                     EducationRecord(line, strip(lines[st.i + 1])))]

\* One iteration of  while i < len(lines)
EducationLine(st, lines, line) ==
    IF line = "" THEN [st EXCEPT !.i = @ + 1]
    ELSE IF search(year_pattern, line).ok THEN [st EXCEPT !.i = @ + 1]
    ELSE IF st.i + 1 > Len(lines) THEN [st EXCEPT !.i = @ + 2]
    ELSE [i |-> st.i + 2,
          education_list |->
              Append(st.education_list,
                     EducationRecord(line, strip(lines[st.i + 1])))]
EducationStep(st, lines) == EducationLine(st, lines, strip(lines[st.i]))

RECURSIVE EducationLoop(_, _)
EducationLoop(st, lines) ==
    IF st.i > Len(lines) THEN st ELSE EducationLoop(EducationStep(st, lines), lines)

parse_education(txt) ==
    EducationLoop([i |-> 1, education_list |-> << >>], split(txt, "\n")).education_list

-----------------------------------------------------------------------------
(* parse_projects *)

Project(name, description) == [name |-> name, description |-> description]

\* projects.append(Project(...)) when there is a current project
SaveProject(st) ==
    IF st.current_project # None /\ st.current_project[1] # ""
    THEN Append(st.projects,
                Project(st.current_project[1], strip(join(" ", st.current_description))))
    ELSE st.projects

ProjectStep(st, lines) ==
    LET line == strip(lines[st.i])
    IN  IF line = "" THEN [st EXCEPT !.i = @ + 1]
        ELSE IF contains(line, ":")
        THEN LET parts == split1(line, ":")
             IN  [i |-> st.i + 1,
                  projects |-> SaveProject(st),
                  current_project |-> Some(strip(parts[1])),
                  current_description |->
                      IF Len(parts) > 1 /\ strip(parts[2]) # ""
                      THEN <<strip(parts[2])>> ELSE << >>]
        ELSE IF st.current_project # None /\ st.current_project[1] # ""
        THEN [st EXCEPT !.i = @ + 1, !.current_description = Append(@, line)]
        ELSE [st EXCEPT !.i = @ + 1]

RECURSIVE ProjectLoop(_, _)
ProjectLoop(st, lines) ==
    IF st.i > Len(lines) THEN st ELSE ProjectLoop(ProjectStep(st, lines), lines)

parse_projects(txt) ==
    SaveProject(ProjectLoop([i |-> 1, projects |-> << >>, current_project |-> None,
                             current_description |-> << >>], split(txt, "\n")))

-----------------------------------------------------------------------------
(* parse_certifications.  Cursors count lines from 1. *)

Certification(date, name, issuer) == [date |-> date, name |-> name, issuer |-> issuer]

CertificationLine(st, line, date_match, has_issuer, next_line) ==
    IF line = "" \/ ~date_match.ok THEN [st EXCEPT !.i = @ + 1]
    ELSE [i |-> IF has_issuer THEN st.i + 2 ELSE st.i + 1,
          certifications |->
              Append(st.certifications,
                     Certification(group(date_match, line, 1),
                                   strip(SubSeq(line, 1, date_match.from - 1)),
                                   IF has_issuer THEN next_line ELSE ""))]
\* i + 1 < len(lines), and the next line is not blank and holds no date
HasIssuer(lines, i) ==
    /\ i + 1 <= Len(lines)
    /\ strip(lines[i + 1]) # ""
    /\ ~search(month_token_pattern, strip(lines[i + 1])).ok
CertificationStep(st, lines) ==
    CertificationLine(st, strip(lines[st.i]),
                      search(month_token_pattern, strip(lines[st.i])),
                      HasIssuer(lines, st.i), strip(lines[st.i + 1]))

RECURSIVE CertificationLoop(_, _)
CertificationLoop(st, lines) ==
    IF st.i > Len(lines) THEN st
    ELSE CertificationLoop(CertificationStep(st, lines), lines)

parse_certifications(txt) ==
    CertificationLoop([i |-> 1, certifications |-> << >>],
                      split(txt, "\n")).certifications

-----------------------------------------------------------------------------
(* parse_volunteering *)

\* activities.append(current_activity) when there is one
SaveActivity(st) ==
    IF st.current_activity # None /\ st.current_activity[1] # ""
    THEN Append(st.activities, st.current_activity[1])
    ELSE st.activities

VolunteeringStep(st, lines) ==
    LET line == strip(lines[st.i])
    IN  IF line = "" THEN [st EXCEPT !.i = @ + 1]
        ELSE IF search(month_token_pattern, line).ok
        THEN [i |-> st.i + 1, activities |-> SaveActivity(st),
              current_activity |-> Some(line)]
        ELSE IF st.current_activity # None /\ st.current_activity[1] # ""
        THEN [st EXCEPT !.i = @ + 1,
                        !.current_activity = Some(@[1] \o " " \o line)]
        ELSE [st EXCEPT !.i = @ + 1]

RECURSIVE VolunteeringLoop(_, _)
VolunteeringLoop(st, lines) ==
    IF st.i > Len(lines) THEN st
    ELSE VolunteeringLoop(VolunteeringStep(st, lines), lines)

parse_volunteering(txt) ==
    SaveActivity(VolunteeringLoop([i |-> 1, activities |-> << >>,
                                   current_activity |-> None], split(txt, "\n")))

-----------------------------------------------------------------------------
(* CVData and parse_cv_logic *)

\* CVData(...) after __post_init__: the collections are never None.
CVData(name, title, location, email, phone, linkedin, github, website, summary,
       technical_skills, work_experience, education, projects, certifications,
       volunteering) ==
    [name |-> name, title |-> title, location |-> location, email |-> email,
     phone |-> phone, linkedin |-> linkedin, github |-> github,
     website |-> website, summary |-> summary,
     technical_skills |-> technical_skills, work_experience |-> work_experience,
     education |-> education, projects |-> projects,
     certifications |-> certifications, volunteering |-> volunteering]

\* CVData()
DefaultCVData ==
    CVData(None, None, None, None, None, None, None, None, None,
           EmptyDict, << >>, << >>, << >>, << >>, << >>)

\* parse_cv_logic from the extracted text on
\* parse(sections[k]) if k in sections, else the field's default
SectionOr(sections, k, parse(_), default) ==
    IF Has(sections, k) THEN parse(At(sections, k)) ELSE default
CVOf(contact, sections) ==
    CVData(contact.name, contact.title, contact.location, contact.email,
           contact.phone, contact.linkedin, contact.github, None,
           Some(strip(Get(sections, "summary", ""))),
           SectionOr(sections, "technical_skills", parse_technical_skills, EmptyDict),
           SectionOr(sections, "experience", parse_work_experience, << >>),
           SectionOr(sections, "education", parse_education, << >>),
           SectionOr(sections, "projects", parse_projects, << >>),
           SectionOr(sections, "certifications", parse_certifications, << >>),
           SectionOr(sections, "volunteering", parse_volunteering, << >>))
\* (the same, but without the return of CVData() for an empty text)
ParseTextAlways(txt) == CVOf(extract_contact_info(txt), split_into_sections(txt))
ParseText(txt) ==
    IF txt = "" THEN DefaultCVData
    ELSE CVOf(extract_contact_info(txt), split_into_sections(txt))

-----------------------------------------------------------------------------
(* dataclass_to_dict.  What it returns is plain data: None, str, list and  *)
(* dict, written here with its type beside it, as json.dumps sees it.      *)

PyNone == [t |-> "none", v |-> << >>]
PyStr(s) == [t |-> "str", v |-> s]
PyList(xs) == [t |-> "list", v |-> xs]
PyDict(items) == [t |-> "dict", v |-> items]

\* Optional[str], List[str], Dict[str, List[str]] as plain data
OfOptional(opt) == IF opt = None THEN PyNone ELSE PyStr(opt[1])
OfStrings(xs) == PyList([n \in 1 .. Len(xs) |-> PyStr(xs[n])])
OfSkills(d) == PyDict([n \in 1 .. Len(d) |-> [k |-> d[n].k, v |-> OfStrings(d[n].v)]])

\* The fields of the dataclasses, in the order of their declaration
WorkExperienceFields == <<"start_date", "end_date", "position", "company",
                          "location", "responsibilities">>
EducationFields == <<"start_date", "end_date", "degree", "institution", "location">>
ProjectFields == <<"name", "description">>
CertificationFields == <<"date", "name", "issuer">>
CVDataFields == <<"name", "title", "location", "email", "phone", "linkedin",
                  "github", "website", "summary", "technical_skills",
                  "work_experience", "education", "projects", "certifications",
                  "volunteering">>
OptionalFields == {"name", "title", "location", "email", "phone", "linkedin",
                   "github", "website", "summary"}

\* A dataclass instance whose fields, but for those of lists, are all str
OfRecord(obj, fields, lists) ==
    PyDict([n \in 1 .. Len(fields) |->
               [k |-> fields[n],
                v |-> IF fields[n] \in lists THEN OfStrings(obj[fields[n]])
                      ELSE PyStr(obj[fields[n]])]])
OfRecords(xs, fields, lists) ==
    PyList([n \in 1 .. Len(xs) |-> OfRecord(xs[n], fields, lists)])

\* (the same, but with every list of records written as an empty list)
DictWithoutRecords(cv) ==
    PyDict([n \in 1 .. Len(CVDataFields) |->
        LET f == CVDataFields[n]
        IN  [k |-> f,
             v |-> CASE f \in OptionalFields -> OfOptional(cv[f])
                     [] f = "technical_skills" -> OfSkills(cv[f])
                     [] f = "volunteering" -> OfStrings(cv[f])
                     [] OTHER -> PyList(<< >>)]])

dataclass_to_dict(cv) ==
    PyDict([n \in 1 .. Len(CVDataFields) |->
        LET f == CVDataFields[n]
        IN  [k |-> f,
             v |-> CASE f \in OptionalFields -> OfOptional(cv[f])
                     [] f = "technical_skills" -> OfSkills(cv[f])
                     [] f = "work_experience" ->
                            OfRecords(cv[f], WorkExperienceFields, {"responsibilities"})
                     [] f = "education" -> OfRecords(cv[f], EducationFields, {})
                     [] f = "projects" -> OfRecords(cv[f], ProjectFields, {})
                     [] f = "certifications" -> OfRecords(cv[f], CertificationFields, {})
                     [] f = "volunteering" -> OfStrings(cv[f])]])

-----------------------------------------------------------------------------
(* json.dumps with its defaults: ", " and ": " between parts, and every    *)
(* character outside ASCII written as \uXXXX.                              *)

Quote == "\""
Backslash == "\\"
\* The escapes of a string literal: what is written, and the character meant
Escapes == <<[c |-> Quote, e |-> "\\\""], [c |-> Backslash, e |-> "\\\\"],
             [c |-> "\n", e |-> "\\n"], [c |-> "\r", e |-> "\\r"],
             [c |-> "\t", e |-> "\\t"], [c |-> "\f", e |-> "\\f"],
             [c |-> EnDash, e |-> "\\u2013"], [c |-> EmDash, e |-> "\\u2014"],
             [c |-> Bullet, e |-> "\\u2022"], [c |-> MidDot, e |-> "\\u00b7"]>>
EscapeOf(c) ==
    LET hits == { n \in 1 .. Len(Escapes) : Escapes[n].c = c }
    IN  IF hits = {} THEN c ELSE Escapes[Least(hits)].e

\* The pieces of a sequence of strings put together (by halves, to keep the
\* evaluation shallow)
RECURSIVE Concat(_)
Concat(parts) ==
    IF Len(parts) = 0 THEN ""
    ELSE IF Len(parts) = 1 THEN parts[1]
    ELSE LET h == Len(parts) \div 2
         IN  Concat(SubSeq(parts, 1, h)) \o Concat(SubSeq(parts, h + 1, Len(parts)))

EncodeString(s) ==
    Quote \o Concat([n \in 1 .. Len(s) |-> EscapeOf(Chr(s, n))]) \o Quote

RECURSIVE json_dumps(_)
json_dumps(x) ==
    CASE x.t = "none" -> "null"
      [] x.t = "str" -> EncodeString(x.v)
      [] x.t = "list" ->
            "[" \o join(", ", [n \in 1 .. Len(x.v) |-> json_dumps(x.v[n])]) \o "]"
      [] x.t = "dict" ->
            "{" \o join(", ", [n \in 1 .. Len(x.v) |->
                       EncodeString(x.v[n].k) \o ": " \o json_dumps(x.v[n].v)]) \o "}"

-----------------------------------------------------------------------------
(* json.loads.  The result says whether the text was JSON (ok), and if so  *)
(* holds the decoded value v; a number or a boolean is kept as its text.   *)

PyNum(txt) == [t |-> "num", v |-> txt]
PyBool(txt) == [t |-> "bool", v |-> txt]
JsonWs == Set({" ", "\t", "\n", "\r"})
JsonControl == {"\n", "\r", "\t", "\f"}
\* -?(0|[1-9]\d*)(\.\d+)?([eE][+-]?\d+)?
JsonNumber ==
    Cat(<<Opt(Set({"-"})),
          Alt(<<Set({"0"}), Cat(<<Set(Digit \ {"0"}), Star(Set(Digit))>>)>>),
          Opt(Cat(<<Set({"."}), Plus(Set(Digit))>>)),
          Opt(Cat(<<Set({"e", "E"}), Opt(Set({"+", "-"})), Plus(Set(Digit))>>))>>)
JsonWords == <<[w |-> "null", v |-> PyNone], [w |-> "true", v |-> PyBool("true")],
               [w |-> "false", v |-> PyBool("false")], [w |-> "NaN", v |-> PyNum("NaN")],
               [w |-> "Infinity", v |-> PyNum("Infinity")],
               [w |-> "-Infinity", v |-> PyNum("-Infinity")]>>
JsonError == [ok |-> FALSE, v |-> PyNone, to |-> 0]
Parsed(v, to) == [ok |-> TRUE, v |-> v, to |-> to]

SkipWs(s, i) == i + RunLength(JsonWs, s, i, Unbounded)

\* How many backslashes stand right before position j, none at or before i
BackslashesBefore(s, i, j) ==
    LET other(m) == Chr(s, m) # Backslash
        last == LastFrom(other, i + 1, j - 1)
    IN  j - 1 - (IF last = 0 THEN i ELSE last)

\* The characters meant by the inside of a string literal, when it is one
DecodeString(body) ==
    LET n == Len(body)
        starts == { k \in 1 .. n : /\ Chr(body, k) = Backslash
                                   /\ BackslashesBefore(body, 0, k) % 2 = 0 }
        IsUnicode(k) == Chr(body, k + 1) = "u"
        written(k) == IF IsUnicode(k) THEN lower(SubSeq(body, k, Min(k + 5, n)))
                      ELSE SubSeq(body, k, Min(k + 1, n))
        known(k) == { m \in 1 .. Len(Escapes) : Escapes[m].e = written(k) }
        meant(k) == IF written(k) = "\\/" THEN "/" ELSE Escapes[Least(known(k))].c
        covered(k) == \E m \in starts :
                          m < k /\ k <= (IF IsUnicode(m) THEN m + 5 ELSE m + 1)
        piece(k) == IF k \in starts THEN meant(k)
                    ELSE IF covered(k) THEN "" ELSE Chr(body, k)
    IN  IF /\ \A k \in 1 .. n : Chr(body, k) \notin JsonControl
           /\ \A k \in starts : written(k) = "\\/" \/ known(k) # {}
        THEN [ok |-> TRUE, v |-> Concat([k \in 1 .. n |-> piece(k)])]
        ELSE [ok |-> FALSE, v |-> ""]

\* The string literal whose opening quote is at position i
ParseString(s, i) ==
    LET closes(j) == Chr(s, j) = Quote /\ BackslashesBefore(s, i, j) % 2 = 0
    IN  With(FirstFrom(closes, i + 1, Len(s)), LAMBDA close :
            IF Chr(s, i) # Quote \/ close = 0 THEN JsonError
            ELSE With(DecodeString(SubSeq(s, i + 1, close - 1)), LAMBDA str :
                     IF ~str.ok THEN JsonError ELSE Parsed(PyStr(str.v), close + 1)))

\* The state of the loop over the items of a list, or the members of a dict,
\* that starts at position first
LoopStart(first) == [ok |-> TRUE, done |-> FALSE, items |-> << >>, pos |-> first]
\* What the loop does with what follows an item: on a comma it goes on, on
\* the closing bracket it ends, and anything else is an error.
AfterItem(s, st, items, after, closing) ==
    IF Chr(s, after) = ","
    THEN [st EXCEPT !.items = items, !.pos = SkipWs(s, after + 1)]
    ELSE IF Chr(s, after) = closing
    THEN [st EXCEPT !.items = items, !.pos = after + 1, !.done = TRUE]
    ELSE [st EXCEPT !.ok = FALSE]
\* One item of a list: item is the value parsed at st.pos
ItemNext(s, st, item) ==
    IF ~item.ok THEN [st EXCEPT !.ok = FALSE]
    ELSE AfterItem(s, st, Append(st.items, item.v), SkipWs(s, item.to), "]")
\* One member of a dict: key is the string parsed at st.pos, value the value
\* parsed after the colon
AfterColon(s, key) == SkipWs(s, SkipWs(s, key.to) + 1)
MemberNext(s, st, key, value) ==
    IF ~key.ok \/ Chr(s, SkipWs(s, key.to)) # ":" THEN [st EXCEPT !.ok = FALSE]
    ELSE IF ~value.ok THEN [st EXCEPT !.ok = FALSE]
    ELSE AfterItem(s, st, Put(st.items, key.v.v, value.v), SkipWs(s, value.to), "}")
ListOf(loop) == IF loop.ok THEN Parsed(PyList(loop.items), loop.pos) ELSE JsonError
DictOf(loop) == IF loop.ok THEN Parsed(PyDict(loop.items), loop.pos) ELSE JsonError
\* null, true, false, NaN, Infinity, -Infinity, or a number, at position i
WordOf(i, words, number, s) ==
    IF words # {}
    THEN Parsed(JsonWords[Least(words)].v, i + Len(JsonWords[Least(words)].w))
    ELSE IF number.ok THEN Parsed(PyNum(SubSeq(s, i, number.to - 1)), number.to)
    ELSE JsonError

\* The parser proper.  what = "value": the value that starts at st.pos.
\* what = "items": the items of a list from st.pos on, up to its closing
\* bracket.  what = "members": the  "key": value  members of a dict
\* likewise.  The result of "value" is Parsed or JsonError; that of the
\* other two is the state of the loop when it ends.
RECURSIVE JsonParse(_, _, _)
JsonParse(what, s, st) ==
    IF what = "items" THEN
        IF st.done \/ ~st.ok THEN st
        ELSE JsonParse("items", s, ItemNext(s, st, JsonParse("value", s, st)))
    ELSE IF what = "members" THEN
        IF st.done \/ ~st.ok THEN st
        ELSE JsonParse("members", s,
                 MemberNext(s, st, ParseString(s, st.pos),
                     JsonParse("value", s,
                         [st EXCEPT !.pos = AfterColon(s, ParseString(s, st.pos))])))
    ELSE
        IF st.pos > Len(s) THEN JsonError
        ELSE IF Chr(s, st.pos) = Quote THEN ParseString(s, st.pos)
        ELSE IF Chr(s, st.pos) = "[" THEN
            IF Chr(s, SkipWs(s, st.pos + 1)) = "]"
            THEN Parsed(PyList(<< >>), SkipWs(s, st.pos + 1) + 1)
            ELSE ListOf(JsonParse("items", s, LoopStart(SkipWs(s, st.pos + 1))))
        ELSE IF Chr(s, st.pos) = "{" THEN
            IF Chr(s, SkipWs(s, st.pos + 1)) = "}"
            THEN Parsed(PyDict(EmptyDict), SkipWs(s, st.pos + 1) + 1)
            ELSE DictOf(JsonParse("members", s, LoopStart(SkipWs(s, st.pos + 1))))
        ELSE WordOf(st.pos,
                    { n \in 1 .. Len(JsonWords) : StartsAt(s, JsonWords[n].w, st.pos) },
                    MatchAt(<<JsonNumber>>, s, st.pos), s)

\* The value that starts at position i
ParseValue(s, i) == JsonParse("value", s, LoopStart(i))

json_loads(s) ==
    With(ParseValue(s, SkipWs(s, 1)), LAMBDA value :
        IF value.ok /\ SkipWs(s, value.to) = Len(s) + 1 THEN value ELSE JsonError)

-----------------------------------------------------------------------------
(* _reconstruct_cv_data.  The result says whether it returned (ok) or      *)
(* raised, and if it returned holds the CVData v.                          *)

\* bool(x) of plain data
Truth(x) ==
    CASE x.t = "none" -> FALSE
      [] x.t = "bool" -> x.v = "true"
      [] x.t = "num" -> ~match(Cat(<<Opt(Set({"-"})), Plus(Set({"0", "."})),
                                     Opt(Cat(<<Set({"e", "E"}), Star(NotSet({}))>>)), Eol>>),
                               x.v).ok
      [] OTHER -> Len(x.v) > 0

\* Plain data as the values the parsers build
RECURSIVE Untag(_)
Untag(x) ==
    CASE x.t = "none" -> None
      [] x.t = "str" -> x.v
      [] x.t = "list" -> [n \in 1 .. Len(x.v) |-> Untag(x.v[n])]
      [] x.t = "dict" -> [n \in 1 .. Len(x.v) |-> [k |-> x.v[n].k, v |-> Untag(x.v[n].v)]]
      [] OTHER -> x

FieldSet(fields) == { fields[n] : n \in 1 .. Len(fields) }

\* Cls(**i) returns: i is a dict of exactly the fields of Cls
Fits(i, fields) == i.t = "dict" /\ Keys(i.v) = FieldSet(fields)
\* Cls(**i)
Instance(i, fields) == [f \in FieldSet(fields) |-> Untag(At(i.v, f))]

\* (the same, but with the classes of education and projects exchanged)
ClassOfCrossed ==
    <<[k |-> "work_experience", v |-> WorkExperienceFields],
      [k |-> "education", v |-> ProjectFields],
      [k |-> "projects", v |-> EducationFields],
      [k |-> "certifications", v |-> CertificationFields]>>

ClassOf ==
    <<[k |-> "work_experience", v |-> WorkExperienceFields],
      [k |-> "education", v |-> EducationFields],
      [k |-> "projects", v |-> ProjectFields],
      [k |-> "certifications", v |-> CertificationFields]>>

\* if k in d and d[k]
Present(d, k) == Has(d, k) /\ Truth(At(d, k))

\* CVData(**d) alone, the lists of records left as the dicts they are
ReconstructFlat(data) ==
    LET d == data.v
        Field(f) ==
            IF ~Has(d, f) THEN (IF f \in OptionalFields THEN None ELSE << >>)
            ELSE IF f \in OptionalFields
            THEN (IF At(d, f).t = "none" THEN None ELSE Some(Untag(At(d, f))))
            ELSE Untag(At(d, f))
    IN  IF data.t = "dict" /\ Keys(d) \subseteq FieldSet(CVDataFields)
        THEN [ok |-> TRUE, v |-> [f \in FieldSet(CVDataFields) |-> Field(f)]]
        ELSE [ok |-> FALSE, v |-> DefaultCVData]

\* The defaults of the fields of CVData:  = None  and
\* field(default_factory=dict), field(default_factory=list)
DefaultData(f) ==
    IF f \in OptionalFields THEN PyNone
    ELSE IF f = "technical_skills" THEN PyDict(<< >>) ELSE PyList(<< >>)
\* (the same, but a collection passed as None stays None)
post_init_absent(f, x) == x
\* CVData.__post_init__ on the field f holding x
post_init(f, x) ==
    IF f \notin OptionalFields /\ x.t = "none" THEN DefaultData(f) ELSE x
\* What the field f of CVData(**d) holds, seen as plain data
FieldData(d, f) == IF Has(d, f) THEN post_init(f, At(d, f)) ELSE DefaultData(f)

_reconstruct_cv_data(data) ==
    LET d == data.v
        \* [Cls(**i) for i in d[k]] returns
        Rebuilds(k) ==
            \/ ~Present(d, k)
            \/ /\ At(d, k).t = "list"
               /\ \A n \in 1 .. Len(At(d, k).v) : Fits(At(d, k).v[n], At(ClassOf, k))
        Rebuilt(k) ==
            [n \in 1 .. Len(At(d, k).v) |-> Instance(At(d, k).v[n], At(ClassOf, k))]
        Field(f) ==
            With(FieldData(d, f), LAMBDA x :
                IF f \in OptionalFields
                THEN (IF x.t = "none" THEN None ELSE Some(Untag(x)))
                ELSE IF Has(ClassOf, f) /\ Present(d, f) THEN Rebuilt(f)
                ELSE Untag(x))
    IN  IF /\ data.t = "dict"
           /\ \A n \in 1 .. Len(ClassOf) : Rebuilds(ClassOf[n].k)
           /\ Keys(d) \subseteq FieldSet(CVDataFields)
        THEN [ok |-> TRUE, v |-> [f \in FieldSet(CVDataFields) |-> Field(f)]]
        ELSE [ok |-> FALSE, v |-> DefaultCVData]

-----------------------------------------------------------------------------
(* Bounds of the model *)

MaxWidth == 17      \* widest page, in units
MaxChars == 2       \* most character objects on a page of the split runs

-----------------------------------------------------------------------------
(* The machines at rest *)

NoPage == [width |-> 0, chars |-> {}, geometry_fails |-> FALSE]
NoDoc == [open_fails |-> FALSE, pages |-> << >>]

SplitIdle == page = NoPage /\ split_x = None /\ split_pc = "idle"
ExtractIdle == pdf = NoDoc /\ page_no = 0 /\ text = "" /\ ext_pc = "idle"
TripIdle == trip = [pc |-> "idle"]
NoFile == [readable |-> FALSE, bytes |-> "", doc |-> NoDoc, cv |-> DefaultCVData]
RequestsIdle ==
    redis = None /\ store = << >> /\ calls = << >> /\ foreign = FALSE
        /\ file = NoFile
CacheIdle == RequestsIdle /\ logic = [pc |-> "idle"]
Idle == [pc |-> "idle"]
ParseIdle == sect = Idle /\ work = Idle /\ edu = Idle /\ dated = Idle
ListIdle == skl = Idle /\ proj = Idle /\ cert = Idle /\ cont = Idle

-----------------------------------------------------------------------------
(* detect_column_split *)

GapThreshold == 5

\* buckets = [0] * int(width + 1), then 1 wherever a character lies.
\* A character marks every index of range(int(x0), int(x1) + 1) that is a
\* valid index of the array.
Buckets(p) ==
    [x \in 0 .. (int(p.width + 2) - 1) |->
        IF \E c \in p.chars : int(c.x0) <= x /\ x <= int(c.x1) THEN 1 ELSE 0]

\* One iteration of  for x in range(int(scan_start), int(scan_end)).
ScanStep(b, x, st) ==
    IF b[x] = 0
    THEN [st EXCEPT !.current_gap_start =
                        IF st.current_gap = 0 THEN x ELSE @,
                    !.current_gap = @ + 1]
    ELSE IF st.current_gap > st.best_gap_len
         THEN [st EXCEPT !.best_gap_len = st.current_gap,
                         !.best_gap_start = st.current_gap_start,
                         !.current_gap = 0]
         ELSE [st EXCEPT !.current_gap = 0]

RECURSIVE ScanLoop(_, _, _, _)
ScanLoop(b, x, stop, st) ==
    IF x >= stop THEN st ELSE ScanLoop(b, x + 1, stop, ScanStep(b, x, st))

\* The update after the loop, for a gap that runs to the end of the scan.
ScanCloseSkipped(st) == st

ScanClose(st) ==
    IF st.current_gap > st.best_gap_len
    THEN [st EXCEPT !.best_gap_len = st.current_gap,
                    !.best_gap_start = st.current_gap_start]
    ELSE st

\* width * 0.1 and width * 0.9 truncated by int(); p.width is in half units.
ScanStart(p) == p.width \div 20
ScanEnd(p) == (9 * p.width) \div 20

\* best_gap_start + best_gap_len / 2, in half units.
GapMiddle(st) == 2 * st.best_gap_start + st.best_gap_len

detect_column_split(p) ==
    IF p.geometry_fails THEN None                 \* except Exception: fall through
    ELSE IF p.chars = {} THEN None                \* if not chars: return None
    ELSE LET st0 == [current_gap |-> 0, best_gap_start |-> 0,
                     best_gap_len |-> 0, current_gap_start |-> 0]
             st == ScanClose(ScanLoop(Buckets(p), ScanStart(p), ScanEnd(p), st0))
         IN  IF st.best_gap_len > GapThreshold THEN Some(GapMiddle(st)) ELSE None

-----------------------------------------------------------------------------
(* Pages for the detect_column_split runs *)

\* Character spans: x0 just left of the page or every one and a half units
\* up to its right edge (whole and fractional coordinates), widths of half
\* a unit and of one and a half units.
SpanWidths == {1, 3}
Spans(w) ==
    { [x0 |-> a, x1 |-> a + d] :
        a \in { b \in -1 .. w : b = -1 \/ b % 3 = 0 }, d \in SpanWidths }

SplitWidths == (2 * MaxWidth - 3) .. (2 * MaxWidth)

\* Every set of at most n of the spans S.
RECURSIVE UpTo(_, _)
UpTo(S, n) ==
    IF n = 0 THEN {{}}
    ELSE LET less == UpTo(S, n - 1)
         IN  less \cup { s \cup {c} : s \in less, c \in S }

SplitPages ==
    { [width |-> w, chars |-> cs, geometry_fails |-> FALSE] :
        w \in SplitWidths, cs \in UpTo(Spans(2 * MaxWidth), MaxChars) }
    \cup { [width |-> 2 * MaxWidth, chars |-> {[x0 |-> 2, x1 |-> 4]},
            geometry_fails |-> TRUE] }

InitSplit ==
    /\ page \in SplitPages
    /\ split_x = None
    /\ split_pc = "call"
    /\ ExtractIdle /\ TripIdle /\ CacheIdle /\ ParseIdle
    /\ ListIdle

DetectColumnSplit ==
    /\ split_pc = "call"
    /\ split_x' = detect_column_split(page)
    /\ split_pc' = "returned"
    /\ UNCHANGED <<list_vars, page, extract_vars, trip_vars, cache_vars, parse_vars>>

NextSplit == DetectColumnSplit

SpecSplit == InitSplit /\ [][NextSplit]_vars

-----------------------------------------------------------------------------
(* extract_text_from_pdf *)

\* pdfplumber stand-in.  A character object carries its span, the row it
\* sits on and its text.  page.crop(bbox) keeps the objects that intersect
\* the box; extract_text() gives the rows top to bottom, newline-joined, the
\* objects of a row left to right, space-joined, and "" when there are none.
CropChars(p, a, b) == { c \in p.chars : c.x1 > a /\ c.x0 < b }

RECURSIVE RowText(_)
RowText(cs) ==
    IF cs = {} THEN ""
    ELSE LET c == CHOOSE d \in cs : \A e \in cs : d.x0 <= e.x0
             rest == RowText(cs \ {c})
         IN  IF rest = "" THEN c.text ELSE c.text \o " " \o rest

RECURSIVE RowsText(_)
RowsText(cs) ==
    IF cs = {} THEN ""
    ELSE LET r == CHOOSE q \in { c.row : c \in cs } :
                      \A c \in cs : q <= c.row
             rest == RowsText({ c \in cs : c.row # r })
             line == RowText({ c \in cs : c.row = r })
         IN  IF rest = "" THEN line ELSE line \o "\n" \o rest

extract_text(cs) == RowsText(cs)

\* if split_x:  None and 0.0 are falsy.
Truthy(opt) == opt # None /\ opt[1] # 0

\* The body of  for page in pdf.pages  on one page, from the accumulator t:
\* the new accumulator, and whether an exception left the loop (the try
\* encloses the whole loop, so the first exception ends the extraction).
PageStepRightFirst(t, p) ==
    LET sx == detect_column_split(p)
        put(acc, piece) == IF piece # "" THEN acc \o piece \o "\n" ELSE acc
    IN  IF Truthy(sx)
        THEN [text |-> put(put(t, extract_text(CropChars(p, sx[1], p.width))),
                           extract_text(CropChars(p, 0, sx[1]))),
              raised |-> p.extract_fails \cap {"left", "right"} # {}]
        ELSE [text |-> put(t, extract_text(p.chars)),
              raised |-> "whole" \in p.extract_fails]

PageStep(t, p) ==
    LET sx == detect_column_split(p)
        put(acc, piece) == IF piece # "" THEN acc \o piece \o "\n" ELSE acc
    IN  IF Truthy(sx)
        THEN IF "left" \in p.extract_fails
             THEN [text |-> t, raised |-> TRUE]
             ELSE LET t1 == put(t, extract_text(CropChars(p, 0, sx[1])))
                  IN  IF "right" \in p.extract_fails
                      THEN [text |-> t1, raised |-> TRUE]
                      ELSE [text |-> put(t1, extract_text(
                                        CropChars(p, sx[1], p.width))),
                            raised |-> FALSE]
        ELSE IF "whole" \in p.extract_fails
             THEN [text |-> t, raised |-> TRUE]
             ELSE [text |-> put(t, extract_text(p.chars)), raised |-> FALSE]

RECURSIVE PageLoop(_, _, _)
PageLoop(pages, i, t) ==
    IF i > Len(pages) THEN t
    ELSE LET r == PageStep(t, pages[i])
         IN  IF r.raised THEN r.text ELSE PageLoop(pages, i + 1, r.text)

\* A document that pdfplumber.open rejects gives "".
extract_text_from_pdf(doc) ==
    IF doc.open_fails THEN "" ELSE PageLoop(doc.pages, 1, "")

-----------------------------------------------------------------------------
(* Documents for the extract_text_from_pdf runs *)

MaxPages == 3       \* most pages of a document

PageWidth == 2 * MaxWidth      \* half units

Obj(x0, x1, row, txt) == [x0 |-> x0, x1 |-> x1, row |-> row, text |-> txt]

APage(cs, fails) ==
    [width |-> PageWidth, chars |-> cs, geometry_fails |-> FALSE,
     extract_fails |-> fails]

\* One column: objects that span the scanned range.
OneColumn == { Obj(2, PageWidth - 3, 1, "Ann Lee"), Obj(2, PageWidth - 3, 2, "Skills") }
\* Two columns with a gap wider than 5 units between them.
TwoColumns ==
    { Obj(2, 8, 1, "Education"), Obj(2, 8, 2, "BSc"),
      Obj(PageWidth - 8, PageWidth - 2, 1, "Projects"),
      Obj(PageWidth - 8, PageWidth - 2, 2, "Web: shop") }
\* Text in the right column only: a split with an empty left region.
RightOnly == { Obj(PageWidth - 8, PageWidth - 2, 1, "Volunteer") }

ExtractPages ==
    { APage({}, {}),
      APage(OneColumn, {}),
      APage(TwoColumns, {}),
      APage(RightOnly, {}),
      APage(OneColumn, {"whole"}),
      APage(TwoColumns, {"left"}),
      APage(TwoColumns, {"right"}),
      [APage(TwoColumns, {}) EXCEPT !.geometry_fails = TRUE] }

RECURSIVE SeqsUpTo(_, _)
SeqsUpTo(S, n) ==
    IF n = 0 THEN { << >> }
    ELSE LET less == SeqsUpTo(S, n - 1)
         IN  less \cup { Append(q, e) : q \in less, e \in S }

ExtractDocs ==
    { [open_fails |-> FALSE, pages |-> ps] : ps \in SeqsUpTo(ExtractPages, MaxPages) }
    \cup { [open_fails |-> TRUE, pages |-> << >>] }

InitExtract ==
    /\ pdf \in ExtractDocs
    /\ page_no = 0
    /\ text = ""
    /\ ext_pc = "call"
    /\ SplitIdle /\ TripIdle /\ CacheIdle /\ ParseIdle
    /\ ListIdle

\* with pdfplumber.open(pdf_path) as pdf
ExtractOpen ==
    /\ ext_pc = "call"
    /\ IF pdf.open_fails
       THEN ext_pc' = "returned" /\ page_no' = page_no
       ELSE ext_pc' = "loop" /\ page_no' = 1
    /\ UNCHANGED <<list_vars, split_vars, pdf, text, trip_vars, cache_vars, parse_vars>>

\* one iteration of  for page in pdf.pages
ExtractPage ==
    /\ ext_pc = "loop"
    /\ page_no <= Len(pdf.pages)
    /\ LET r == PageStep(text, pdf.pages[page_no])
       IN  /\ text' = r.text
           /\ IF r.raised
              THEN ext_pc' = "returned" /\ page_no' = page_no
              ELSE ext_pc' = "loop" /\ page_no' = page_no + 1
    /\ UNCHANGED <<list_vars, split_vars, pdf, trip_vars, cache_vars, parse_vars>>

\* return text
ExtractReturn ==
    /\ ext_pc = "loop"
    /\ page_no > Len(pdf.pages)
    /\ ext_pc' = "returned"
    /\ UNCHANGED <<list_vars, split_vars, pdf, page_no, text, trip_vars, cache_vars, parse_vars>>

NextExtract == ExtractOpen \/ ExtractPage \/ ExtractReturn

SpecExtract == InitExtract /\ [][NextExtract]_vars

-----------------------------------------------------------------------------
(* A CVData through dataclass_to_dict, json.dumps, json.loads and           *)
(* _reconstruct_cv_data, one stage a step                                   *)

\* Values of the shapes the parsers build.  The strings hold what JSON has
\* to escape: quotes, backslashes, line breaks, characters outside ASCII.
TripContacts ==
    { [name |-> None, title |-> None, location |-> None, email |-> None,
       phone |-> None, linkedin |-> None, github |-> None, summary |-> None],
      [name |-> Some("Ann Lee"), title |-> None, location |-> None,
       email |-> Some("ann.lee@mail.com"), phone |-> None, linkedin |-> None,
       github |-> None, summary |-> Some("")],
      [name |-> Some("Ann Lee"), title |-> Some("Engineer \\ Lead"),
       location |-> Some("Jakarta, Indonesia"), email |-> Some("a@b.co"),
       phone |-> Some("+62 812 3456 7890"),
       linkedin |-> Some("linkedin.com/in/annlee"),
       github |-> Some("https://github.com/annlee/"),
       summary |-> Some("Builds \"things\".\n2019 ~ 2021 $ remote\tteams") ] }
TripSkills ==
    { EmptyDict,
      <<[k |-> "General", v |-> <<"Go", "Rust">>]>>,
      <<[k |-> "Languages", v |-> <<"Python">>], [k |-> "", v |-> <<"a:b", "{}">>],
        [k |-> "General", v |-> <<"Docker">>]>> }
TripWork ==
    { << >>,
      <<WorkExperience("Jan 2020", "Present", "Engineer", "Acme \"Labs\"", "Jakarta",
                       <<"Built the API", "Led a team ^ of 3">>)>>,
      <<WorkExperience("2017", "2019", "", "Beta", "", << >>),
        WorkExperience("Sept 2019", "Oct 2020", "Lead", "", "Remote, UK", <<"[x]">>)>> }
TripRest ==
    { [education |-> << >>, projects |-> << >>, certifications |-> << >>,
       volunteering |-> << >>],
      [education |-> <<Education("2012", "2016", "BSc", "University of X", "Depok, ID")>>,
       projects |-> <<Project("Shop", "an online shop")>>,
       certifications |-> <<Certification("Jan 2022", "AWS Certified", "Amazon")>>,
       volunteering |-> <<"Mar 2020 Teaching">>],
      [education |-> <<Education("", "", "", "", ""), Education("2009", "Present", "High School", "", "")>>,
       projects |-> <<Project("A", ""), Project("B", "c: d")>>,
       certifications |-> <<Certification("Feb 2021", "", ""), Certification("Mar 2021", "CKA", "")>>,
       volunteering |-> <<"Jan 2020 a", "Feb 2021 b * c">>] }
TripValues ==
    { CVData(c.name, c.title, c.location, c.email, c.phone, c.linkedin, c.github,
             None, c.summary, sk, w, r.education, r.projects, r.certifications,
             r.volunteering) :
        c \in TripContacts, sk \in TripSkills, w \in TripWork, r \in TripRest }

InitRoundTrip ==
    /\ trip \in { [pc |-> "start", cv |-> cv, dict |-> PyNone, text |-> "",
                   loaded |-> JsonError,
                   rebuilt |-> [ok |-> FALSE, v |-> DefaultCVData]] :
                  cv \in TripValues }
    /\ SplitIdle /\ ExtractIdle /\ CacheIdle /\ ParseIdle
    /\ ListIdle

\* data_dict = dataclass_to_dict(cv_data)
TripToDict ==
    /\ trip.pc = "start"
    /\ trip' = [trip EXCEPT !.pc = "dict", !.dict = dataclass_to_dict(trip.cv)]
    /\ UNCHANGED <<list_vars, split_vars, extract_vars, cache_vars, parse_vars>>

\* json.dumps(data_dict)
TripDumps ==
    /\ trip.pc = "dict"
    /\ trip' = [trip EXCEPT !.pc = "text", !.text = json_dumps(trip.dict)]
    /\ UNCHANGED <<list_vars, split_vars, extract_vars, cache_vars, parse_vars>>

\* data_dict = json.loads(cached_data)
TripLoads ==
    /\ trip.pc = "text"
    /\ trip' = [trip EXCEPT !.pc = "loaded", !.loaded = json_loads(trip.text)]
    /\ UNCHANGED <<list_vars, split_vars, extract_vars, cache_vars, parse_vars>>

\* self._reconstruct_cv_data(data_dict)
TripReconstruct ==
    /\ trip.pc = "loaded"
    /\ trip.loaded.ok
    /\ trip' = [trip EXCEPT !.pc = "rebuilt",
                            !.rebuilt = _reconstruct_cv_data(trip.loaded.v)]
    /\ UNCHANGED <<list_vars, split_vars, extract_vars, cache_vars, parse_vars>>

NextRoundTrip == TripToDict \/ TripDumps \/ TripLoads \/ TripReconstruct

SpecRoundTrip == InitRoundTrip /\ [][NextRoundTrip]_vars

-----------------------------------------------------------------------------
(* split_into_sections run on one text.  The text is made of a few lines:  *)
(* two headings (one in capitals with a blank after it, as re.IGNORECASE   *)
(* and strip() allow), body lines with and without blanks around them, a   *)
(* blank line, and a line that reads like a heading and is none.  A text   *)
(* may open with two sections that have a body each.                       *)

MaxLines == 3       \* most lines of a text after its opening

SectionLines == <<"Skills", "EDUCATION ", "a", " b", "", "Skills:">>
SectionOpenings == { << >>, <<"Skills", "a", "EDUCATION ", " b">> }

\* The sequences of at most n indices into a list of k lines
RECURSIVE Picks(_, _)
Picks(k, n) ==
    IF n = 0 THEN { << >> }
    ELSE Picks(k, n - 1)
         \cup { Append(p, j) : p \in { q \in Picks(k, n - 1) : Len(q) = n - 1 },
                               j \in 1 .. k }
LinesOf(list, p) == [n \in 1 .. Len(p) |-> list[p[n]]]

InitSections ==
    /\ \E opening \in SectionOpenings, p \in Picks(Len(SectionLines), MaxLines) :
           sect = [pc |-> "call", lines |-> opening \o LinesOf(SectionLines, p),
                   sections |-> EmptyDict]
    /\ work = Idle /\ edu = Idle /\ dated = Idle
    /\ SplitIdle /\ ExtractIdle /\ TripIdle /\ CacheIdle
    /\ ListIdle

\* sections = self.split_into_sections(text)
SplitIntoSections ==
    /\ sect.pc = "call"
    /\ sect' = [sect EXCEPT !.pc = "returned",
                            !.sections = split_into_sections(join("\n", sect.lines))]
    /\ UNCHANGED <<list_vars, split_vars, extract_vars, trip_vars, cache_vars, work, edu, dated>>

NextSections == SplitIntoSections
SpecSections == InitSections /\ [][NextSections]_vars

-----------------------------------------------------------------------------
(* parse_work_experience run on one section, one iteration of its outer    *)
(* loop at a time.  blocks keeps, for every record appended, where its     *)
(* header started, where its date line was and where the loop went on.     *)

MaxWorkLines == 2   \* most lines of a section after its opening

WorkLines == <<"QA Lead", "Acme", "Dev at X | Y", "2019-2021", "* did", "-", "">>
WorkOpenings == { << >>,
                  <<"QA Lead">>,
                  <<"Acme">>,
                  <<"Jan 2020 ~ Present", "* did", "-", "">>,
                  <<"in 2020", "", "", "Dev | X | Y", "Depok, 2019 - Current">> }

InitWork ==
    /\ \E opening \in WorkOpenings, p \in Picks(Len(WorkLines), MaxWorkLines) :
           work = [pc |-> "call",
                   text |-> join("\n", opening \o LinesOf(WorkLines, p)),
                   lines |-> << >>, i |-> 0, experiences |-> << >>,
                   blocks |-> << >>]
    /\ sect = Idle /\ edu = Idle /\ dated = Idle
    /\ SplitIdle /\ ExtractIdle /\ TripIdle /\ CacheIdle
    /\ ListIdle

\* experiences = [] ; lines = text.split('\n') ; i = 0
WorkCall ==
    /\ work.pc = "call"
    /\ work' = [work EXCEPT !.pc = "loop", !.lines = split(work.text, "\n"), !.i = 1]
    /\ UNCHANGED <<list_vars, split_vars, extract_vars, trip_vars, cache_vars, sect, edu, dated>>

\* One iteration of  while i < len(lines): the state after it, st being what
\* the iteration leaves of i and experiences
WorkAfter(w, st, date_line_idx) ==
    [w EXCEPT !.i = st.i,
              !.experiences = st.experiences,
              !.blocks = IF Len(st.experiences) > Len(w.experiences)
                         THEN Append(@, [i |-> w.i, date |-> date_line_idx,
                                         next |-> st.i])
                         ELSE @]
WorkIteration ==
    /\ work.pc = "loop"
    /\ work.i <= Len(work.lines)
    /\ work' = WorkAfter(work,
                         WorkStep([i |-> work.i, experiences |-> work.experiences],
                                  work.lines),
                         DateLineFrom(work.lines, work.i))
    /\ UNCHANGED <<list_vars, split_vars, extract_vars, trip_vars, cache_vars, sect, edu, dated>>

\* return experiences
WorkReturn ==
    /\ work.pc = "loop"
    /\ work.i > Len(work.lines)
    /\ work' = [work EXCEPT !.pc = "returned"]
    /\ UNCHANGED <<list_vars, split_vars, extract_vars, trip_vars, cache_vars, sect, edu, dated>>

NextWork == WorkCall \/ WorkIteration \/ WorkReturn
SpecWork == InitWork /\ [][NextWork]_vars

-----------------------------------------------------------------------------
(* The date range search of parse_work_experience, on one line.            *)

MaxDateTokens == 3   \* most tokens of a line

DateTokens == <<"Jan 2020", "2019", "2021", "2020", "-", " ~ ", "^",
                "Present", "current">>

\* The tokens of p, one after the other
RECURSIVE TokensOf(_, _)
TokensOf(list, p) ==
    IF p = << >> THEN "" ELSE list[p[1]] \o TokensOf(list, Tail(p))

InitDates ==
    /\ \E p \in Picks(Len(DateTokens), MaxDateTokens) :
           dated = [pc |-> "call", line |-> TokensOf(DateTokens, p),
                    date_match |-> NoMatch]
    /\ sect = Idle /\ work = Idle /\ edu = Idle
    /\ SplitIdle /\ ExtractIdle /\ TripIdle /\ CacheIdle
    /\ ListIdle

\* check_line = lines[i + offset].strip() ; date_match = re.search(..., check_line, re.IGNORECASE)
DateSearch ==
    /\ dated.pc = "call"
    /\ dated' = [dated EXCEPT !.pc = "searched",
                              !.date_match = search(date_range_pattern, strip(dated.line))]
    /\ UNCHANGED <<list_vars, split_vars, extract_vars, trip_vars, cache_vars, sect, work, edu>>

NextDates == DateSearch
SpecDates == InitDates /\ [][NextDates]_vars


-----------------------------------------------------------------------------
(* parse_education, one iteration of its loop at a time.  seen keeps the   *)
(* lines the loop has examined, blocks the degree line of each record.     *)

MaxEduLines == 2   \* most lines of a section after its opening

EduLines == <<"Art", "B.Sc", "SMA", "D3 SMA", "", "SMA, Depok 2015-2019",
              "2015 2017 2019">>
EduOpenings == { << >>,
                 <<"B.Sc", "MIT, Boston, 2015 ~ Present">>,
                 <<"B.Sc", "MIT, Boston, 2019 - Current">>,
                 <<"Art", "MIT 2015 2017 2019", "SMA">>,
                 <<"2020", "Art School", "Major", "B.Sc">> }

InitEducation ==
    /\ \E opening \in EduOpenings, p \in Picks(Len(EduLines), MaxEduLines) :
           edu = [pc |-> "call",
                  text |-> join("\n", opening \o LinesOf(EduLines, p)),
                  lines |-> << >>, i |-> 0, education_list |-> << >>,
                  seen |-> << >>, blocks |-> << >>]
    /\ sect = Idle /\ work = Idle /\ dated = Idle
    /\ SplitIdle /\ ExtractIdle /\ TripIdle /\ CacheIdle
    /\ ListIdle

\* education_list = [] ; lines = text.split('\n') ; i = 0
EducationCall ==
    /\ edu.pc = "call"
    /\ edu' = [edu EXCEPT !.pc = "loop", !.lines = split(edu.text, "\n"), !.i = 1]
    /\ UNCHANGED <<list_vars, split_vars, extract_vars, trip_vars, cache_vars, sect, work, dated>>

\* One iteration of  while i < len(lines): the state after it, st being what
\* the iteration leaves of i and education_list
EducationAfter(e, st) ==
    [e EXCEPT !.i = st.i,
              !.education_list = st.education_list,
              !.seen = Append(@, e.i),
              !.blocks = IF Len(st.education_list) > Len(e.education_list)
                         THEN Append(@, [i |-> e.i]) ELSE @]
EducationIteration ==
    /\ edu.pc = "loop"
    /\ edu.i <= Len(edu.lines)
    /\ edu' = EducationAfter(edu,
                  EducationStep([i |-> edu.i, education_list |-> edu.education_list],
                                edu.lines))
    /\ UNCHANGED <<list_vars, split_vars, extract_vars, trip_vars, cache_vars, sect, work, dated>>

\* return education_list
EducationReturn ==
    /\ edu.pc = "loop"
    /\ edu.i > Len(edu.lines)
    /\ edu' = [edu EXCEPT !.pc = "returned"]
    /\ UNCHANGED <<list_vars, split_vars, extract_vars, trip_vars, cache_vars, sect, work, dated>>

NextEducation == EducationCall \/ EducationIteration \/ EducationReturn
SpecEducation == InitEducation /\ [][NextEducation]_vars


-----------------------------------------------------------------------------
(* parse_cv_logic run on one document *)

\* parse_cv_logic(pdf_path), doc being the document at that path
parse_cv_logic(doc) == ParseText(extract_text_from_pdf(doc))

LogicPages ==
    { APage({}, {}), APage(OneColumn, {}), APage(RightOnly, {}),
      APage(OneColumn, {"whole"}) }
LogicDocs ==
    { [open_fails |-> FALSE, pages |-> ps] : ps \in SeqsUpTo(LogicPages, MaxPages) }
    \cup { [open_fails |-> TRUE, pages |-> << >>] }

InitLogic ==
    /\ \E doc \in LogicDocs :
           logic = [pc |-> "call", doc |-> doc, text |-> "", cv_data |-> DefaultCVData]
    /\ RequestsIdle
    /\ SplitIdle /\ ExtractIdle /\ TripIdle /\ ParseIdle
    /\ ListIdle

\* text = self.extract_text_from_pdf(pdf_path)
LogicExtract ==
    /\ logic.pc = "call"
    /\ logic' = [logic EXCEPT !.pc = "text",
                              !.text = extract_text_from_pdf(logic.doc)]
    /\ UNCHANGED <<list_vars, split_vars, extract_vars, trip_vars, parse_vars,
                   redis, store, calls, foreign, file>>

\* if not text: return CVData() ... return cv_data
LogicParse ==
    /\ logic.pc = "text"
    /\ logic' = [logic EXCEPT !.pc = "returned", !.cv_data = ParseText(logic.text)]
    /\ UNCHANGED <<list_vars, split_vars, extract_vars, trip_vars, parse_vars,
                   redis, store, calls, foreign, file>>

NextLogic == LogicExtract \/ LogicParse
SpecLogic == InitLogic /\ [][NextLogic]_vars


-----------------------------------------------------------------------------
(* parse_cv: requests for one file against the cache.  A request is a     *)
(* record of calls; its pc says where it stands in parse_cv.  The store    *)
(* holds, under each key, the value and the seconds it has left to live.   *)

BlockSize == 4096           \* f.read(4096)
CacheTtl == 86400           \* setex(..., 86400, ...)
TickSeconds == CacheTtl \div 2

MaxCalls == 2       \* most requests

\* iter(lambda: f.read(4096), b""): the blocks of the file, in order
RECURSIVE Blocks(_, _)
Blocks(bytes, n) ==
    IF Len(bytes) = 0 THEN << >>
    ELSE IF Len(bytes) <= n THEN <<bytes>>
    ELSE <<SubSeq(bytes, 1, n)>> \o Blocks(SubSeq(bytes, n + 1, Len(bytes)), n)

\* hashlib.sha256 of the contents of the files of the requests
Sha256 ==
    <<[k |-> "%PDF-1.4 cv",
       v |-> "3ef99bbcde756fae57781044359ce5006d84dc589021edc8fa6d8857d018a05f"],
      [k |-> "not a pdf",
       v |-> "07bcbca5e5cff5eadb6a3578850bb9413f9bfd2406d9210b0c25b7f78449889a"]>>
hexdigest(bytes) == At(Sha256, bytes)

\* sha256_hash.update(byte_block) for each block, then hexdigest()
get_file_hash(f) == hexdigest(Concat(Blocks(f.bytes, BlockSize)))

\* (the same key, but without its prefix)
CacheKeyBare(file_hash) == file_hash
\* f"cv:{file_hash}"
CacheKey(file_hash) == "cv:" \o file_hash

\* (an entry that is gone as soon as time passes)
LiveNever(e) == FALSE
\* An entry is there while it has time left to live.
Live(e) == e.ttl > 0

\* self.redis.get(key): the value, or None
redis_get(st, key) == IF Has(st, key) THEN Some(At(st, key).value) ELSE None
\* self.redis.setex(key, seconds, value)
redis_setex(st, key, seconds, value) ==
    Put(st, key, [value |-> value, ttl |-> seconds])
\* The store after some seconds: every entry has that much less to live,
\* and those with nothing left are gone.
Aged(st, seconds) ==
    SelectSeq([n \in 1 .. Len(st) |->
                  [st[n] EXCEPT !.v = [@ EXCEPT !.ttl = @ - seconds]]],
              LAMBDA item : Live(item.v))

\* A one-column page with the lines of a short CV
CVPage ==
    APage({ Obj(2, PageWidth - 3, 1, "Ann Lee"),
            Obj(2, PageWidth - 3, 2, "Summary"),
            Obj(2, PageWidth - 3, 3, "Builds tools"),
            Obj(2, PageWidth - 3, 4, "Experience"),
            Obj(2, PageWidth - 3, 5, "Dev at X"),
            Obj(2, PageWidth - 3, 6, "2019-2021") }, {})

\* A file: whether open(pdf_path, "rb") succeeds, its bytes, the document
\* pdfplumber makes of them, and the value parse_cv_logic has for that
\* document (it reads nothing but the file).
FileOf(bytes, doc) ==
    [readable |-> TRUE, bytes |-> bytes, doc |-> doc, cv |-> parse_cv_logic(doc)]
CVFile == FileOf("%PDF-1.4 cv", [open_fails |-> FALSE, pages |-> <<CVPage>>])
NotPdf == FileOf("not a pdf", [open_fails |-> TRUE, pages |-> << >>])
Files == {NoFile, CVFile, NotPdf}

\* What another client of the same backend may leave under a key
\* (a record of CVData with collections given as null)
NullCollections == "{\"name\": \"Jane\", \"projects\": null, \"technical_skills\": null}"
ForeignValues == {"", "{", "{}", NullCollections}

Client == Some("client")

\* A request that has not yet hashed its file.  Beside the locals of
\* parse_cv it records what the request did: whether it ran the parse,
\* whether it returned a cached value, which exceptions it met, how many
\* cache operations it began, the arguments of its setex and the time
\* since, and which earlier requests had returned and stored a value less
\* than CacheTtl before it began.
NewCall ==
    [pc |-> "call", file_hash |-> "", cv_data |-> DefaultCVData,
     parsed |-> FALSE, hit |-> FALSE, faults |-> {}, ops |-> 0,
     setex |-> << >>, age |-> 0, window |-> {}]

\* The requests that have stored a value less than CacheTtl ago
Window(cs) ==
    { n \in 1 .. Len(cs) :
        cs[n].pc = "returned" /\ cs[n].setex # << >> /\ cs[n].age < CacheTtl }

\* (the same, but the exception reaches the caller)
OnGetErrorRaise(call, why) ==
    [call EXCEPT !.pc = "raised", !.faults = @ \cup {why}]
\* except Exception as e: print(f"Redis get failed: {e}"), and on to the parse
OnGetError(call, why) ==
    [call EXCEPT !.pc = "parse", !.faults = @ \cup {why}]

\* (the same, but the exception reaches the caller)
OnSetErrorRaise(call) ==
    [call EXCEPT !.pc = "raised", !.faults = @ \cup {"set"}]
\* except Exception as e: print(f"Redis set failed: {e}"), and return cv_data
OnSetError(call) ==
    [call EXCEPT !.pc = "returned", !.faults = @ \cup {"set"}]

\* if cached_data: ... json.loads ... return self._reconstruct_cv_data(data_dict)
AfterGet(call, cached_data) ==
    IF cached_data = None \/ cached_data[1] = ""
    THEN [call EXCEPT !.pc = "parse"]
    ELSE With(json_loads(cached_data[1]), LAMBDA loaded :
            IF ~loaded.ok THEN OnGetError(call, "decode")
            ELSE With(_reconstruct_cv_data(loaded.v), LAMBDA rebuilt :
                    IF ~rebuilt.ok THEN OnGetError(call, "decode")
                    ELSE [call EXCEPT !.pc = "returned", !.hit = TRUE,
                                      !.cv_data = rebuilt.v]))

\* file_hash = self.get_file_hash(pdf_path), which raises when the file
\* cannot be opened
Hashed(call, f) ==
    IF f.readable
    THEN [call EXCEPT !.pc = "get", !.file_hash = get_file_hash(f)]
    ELSE [call EXCEPT !.pc = "raised"]

\* if self.redis: try: cached_data = self.redis.get(f"cv:{file_hash}") ...
Got(call, client, st, raises) ==
    IF call.pc # "get" THEN call
    ELSE IF client = None THEN [call EXCEPT !.pc = "parse"]
    ELSE IF raises THEN OnGetError([call EXCEPT !.ops = @ + 1], "get")
    ELSE AfterGet([call EXCEPT !.ops = @ + 1],
                  redis_get(st, CacheKey(call.file_hash)))

\* cv_data = self.parse_cv_logic(pdf_path)
ParsedCall(call, f) ==
    [call EXCEPT !.pc = "set", !.parsed = TRUE, !.cv_data = f.cv]

\* The arguments of
\* self.redis.setex(f"cv:{file_hash}", 86400, json.dumps(data_dict))
SetexArgs(call) ==
    <<CacheKey(call.file_hash), CacheTtl, json_dumps(dataclass_to_dict(call.cv_data))>>

Init ==
    /\ file \in Files
    /\ redis \in {None, Client}
    /\ store = << >> /\ calls = << >> /\ foreign = FALSE
    /\ logic = Idle
    /\ SplitIdle /\ ExtractIdle /\ TripIdle /\ ParseIdle
    /\ ListIdle

\* parse_cv is called and runs up to the return of a cached value or to the
\* parse.  Hashing reads only the file, so it is taken together with the
\* cache read that follows it.
Request ==
    /\ Len(calls) < MaxCalls
    /\ \E raises \in BOOLEAN :
          /\ raises => redis # None /\ file.readable
          /\ calls' = Append(calls,
                Got(Hashed([NewCall EXCEPT !.window = Window(calls)], file),
                    redis, store, raises))
    /\ UNCHANGED <<list_vars, split_vars, extract_vars, trip_vars, parse_vars,
                   redis, store, foreign, file, logic>>

\* The rest of parse_cv on a miss: the parse, the cache write if there is a
\* backend, and the return of cv_data.  The parse reads only the file, so
\* it is taken together with the cache write that follows it.
ParseAndStore(c) ==
    /\ calls[c].pc = "parse"
    /\ \E raises \in BOOLEAN :
          /\ raises => redis # None
          /\ With(ParsedCall(calls[c], file), LAMBDA call :
                IF redis = None
                THEN /\ calls' = [calls EXCEPT ![c] = [call EXCEPT !.pc = "returned"]]
                     /\ store' = store
                ELSE IF raises
                THEN /\ calls' = [calls EXCEPT ![c] =
                            OnSetError([call EXCEPT !.ops = @ + 1])]
                     /\ store' = store
                ELSE With(SetexArgs(call), LAMBDA args :
                     /\ calls' = [calls EXCEPT ![c] =
                            [call EXCEPT !.pc = "returned", !.ops = @ + 1,
                                         !.setex = args]]
                     /\ store' = redis_setex(store, args[1], args[2], args[3])))
    /\ UNCHANGED <<list_vars, split_vars, extract_vars, trip_vars, parse_vars,
                   redis, foreign, file, logic>>

\* Time passes: the entries of the store age, and so does what the
\* requests remember of their writes (up to CacheTtl, beyond which it no
\* longer matters).
Tick ==
    /\ store' = Aged(store, TickSeconds)
    /\ calls' = [n \in 1 .. Len(calls) |->
                    IF calls[n].setex # << >>
                    THEN [calls[n] EXCEPT !.age = Min(@ + TickSeconds, CacheTtl)]
                    ELSE calls[n]]
    /\ UNCHANGED <<list_vars, split_vars, extract_vars, trip_vars, parse_vars,
                   redis, foreign, file, logic>>

\* Another client of the backend writes under the key of the file.
ForeignWrite ==
    /\ redis # None /\ file.readable
    /\ \E value \in ForeignValues :
          store' = redis_setex(store, CacheKey(get_file_hash(file)), CacheTtl, value)
    /\ foreign' = TRUE
    /\ UNCHANGED <<list_vars, split_vars, extract_vars, trip_vars, parse_vars,
                   redis, calls, file, logic>>

Next ==
    \/ Request
    \/ \E c \in 1 .. Len(calls) : ParseAndStore(c)
    \/ Tick
    \/ ForeignWrite
Spec == Init /\ [][Next]_vars


-----------------------------------------------------------------------------
(* parse_certifications, one iteration of its loop at a time.  blocks      *)
(* keeps the line each certification was made of.                          *)

MaxCertLines == 2   \* most lines of a section after its opening

CertLines == <<"AWS Certified Jan 2022", "Amazon Web Services", "",
               " PMP Mar  2020 ", "Feb 2021 Mar 2023", "Web 2021 Expert",
               "CKA may 2020", "Dec 20221">>
CertOpenings == { << >>,
                  <<"AWS Certified Jan 2022", "Amazon Web Services">>,
                  <<"Scrum Nov 2019", "", "Scrum.org">> }

InitCertifications ==
    /\ \E opening \in CertOpenings, p \in Picks(Len(CertLines), MaxCertLines) :
           cert = [pc |-> "call",
                   text |-> join("\n", opening \o LinesOf(CertLines, p)),
                   lines |-> << >>, i |-> 0, certifications |-> << >>,
                   blocks |-> << >>]
    /\ skl = Idle /\ proj = Idle /\ cont = Idle
    /\ SplitIdle /\ ExtractIdle /\ TripIdle /\ CacheIdle /\ ParseIdle

\* certifications = [] ; lines = text.split('\n') ; i = 0
CertificationCall ==
    /\ cert.pc = "call"
    /\ cert' = [cert EXCEPT !.pc = "loop", !.lines = split(cert.text, "\n"), !.i = 1]
    /\ UNCHANGED <<split_vars, extract_vars, trip_vars, cache_vars, parse_vars,
                   skl, proj, cont>>

\* One iteration of  while i < len(lines): the state after it, st being what
\* the iteration leaves of i and certifications
CertificationAfter(c, st) ==
    [c EXCEPT !.i = st.i,
              !.certifications = st.certifications,
              !.blocks = IF Len(st.certifications) > Len(c.certifications)
                         THEN Append(@, c.i) ELSE @]
CertificationIteration ==
    /\ cert.pc = "loop"
    /\ cert.i <= Len(cert.lines)
    /\ cert' = CertificationAfter(cert,
                   CertificationStep([i |-> cert.i,
                                      certifications |-> cert.certifications],
                                     cert.lines))
    /\ UNCHANGED <<split_vars, extract_vars, trip_vars, cache_vars, parse_vars,
                   skl, proj, cont>>

\* return certifications
CertificationReturn ==
    /\ cert.pc = "loop"
    /\ cert.i > Len(cert.lines)
    /\ cert' = [cert EXCEPT !.pc = "returned"]
    /\ UNCHANGED <<split_vars, extract_vars, trip_vars, cache_vars, parse_vars,
                   skl, proj, cont>>

NextCertifications == CertificationCall \/ CertificationIteration \/ CertificationReturn
SpecCertifications == InitCertifications /\ [][NextCertifications]_vars


-----------------------------------------------------------------------------
(* parse_technical_skills, one line of its loop at a time *)

MaxSkillLines == 2   \* most lines of a section after its opening

SkillLines == <<"Languages: Python, Go", "Languages:", " Docker, , Git ", "",
                "Tools : ,", "General: SQL", ":x", ",", "Web: a:b, c">>
SkillOpenings == { << >>, <<"Languages: Python", "Git">> }

InitSkills ==
    /\ \E opening \in SkillOpenings, p \in Picks(Len(SkillLines), MaxSkillLines) :
           skl = [pc |-> "call",
                  text |-> join("\n", opening \o LinesOf(SkillLines, p)),
                  lines |-> << >>, i |-> 0, skills |-> EmptyDict]
    /\ proj = Idle /\ cert = Idle /\ cont = Idle
    /\ SplitIdle /\ ExtractIdle /\ TripIdle /\ CacheIdle /\ ParseIdle

\* skills = {} ; lines = text.split('\n') ; skills["General"] = []
SkillsCall ==
    /\ skl.pc = "call"
    /\ skl' = [skl EXCEPT !.pc = "loop", !.lines = split(skl.text, "\n"), !.i = 1,
                          !.skills = Put(EmptyDict, "General", << >>)]
    /\ UNCHANGED <<split_vars, extract_vars, trip_vars, cache_vars, parse_vars,
                   proj, cert, cont>>

\* One iteration of  for line in lines
SkillsIteration ==
    /\ skl.pc = "loop"
    /\ skl.i <= Len(skl.lines)
    /\ skl' = With(SkillsStep([i |-> skl.i, skills |-> skl.skills], skl.lines),
                   LAMBDA st : [skl EXCEPT !.i = st.i, !.skills = st.skills])
    /\ UNCHANGED <<split_vars, extract_vars, trip_vars, cache_vars, parse_vars,
                   proj, cert, cont>>

\* if not skills["General"]: del skills["General"] ; return skills
SkillsReturn ==
    /\ skl.pc = "loop"
    /\ skl.i > Len(skl.lines)
    /\ skl' = [skl EXCEPT !.pc = "returned", !.skills = WithoutEmptyGeneral(@)]
    /\ UNCHANGED <<split_vars, extract_vars, trip_vars, cache_vars, parse_vars,
                   proj, cert, cont>>

NextSkills == SkillsCall \/ SkillsIteration \/ SkillsReturn
SpecSkills == InitSkills /\ [][NextSkills]_vars


-----------------------------------------------------------------------------
(* parse_projects, one line of its loop at a time *)

MaxProjectLines == 2   \* most lines of a section after its opening

ProjectLines == <<"Shop: a web shop", "more text", "", " Blog : ", ":x",
                  "a:b:c", "  and more ">>
ProjectOpenings == { << >>, <<"intro", "Shop: web", "in Go">> }

InitProjects ==
    /\ \E opening \in ProjectOpenings, p \in Picks(Len(ProjectLines), MaxProjectLines) :
           proj = [pc |-> "call",
                   text |-> join("\n", opening \o LinesOf(ProjectLines, p)),
                   lines |-> << >>, i |-> 0, projects |-> << >>,
                   current_project |-> None, current_description |-> << >>]
    /\ skl = Idle /\ cert = Idle /\ cont = Idle
    /\ SplitIdle /\ ExtractIdle /\ TripIdle /\ CacheIdle /\ ParseIdle

\* projects = [] ; lines = text.split('\n') ; current_project = None ;
\* current_description = []
ProjectsCall ==
    /\ proj.pc = "call"
    /\ proj' = [proj EXCEPT !.pc = "loop", !.lines = split(proj.text, "\n"), !.i = 1]
    /\ UNCHANGED <<split_vars, extract_vars, trip_vars, cache_vars, parse_vars,
                   skl, cert, cont>>

\* One iteration of  for line in lines
ProjectsIteration ==
    /\ proj.pc = "loop"
    /\ proj.i <= Len(proj.lines)
    /\ proj' = With(ProjectStep([i |-> proj.i, projects |-> proj.projects,
                                 current_project |-> proj.current_project,
                                 current_description |-> proj.current_description],
                                proj.lines),
                    LAMBDA st :
                        [proj EXCEPT !.i = st.i, !.projects = st.projects,
                                     !.current_project = st.current_project,
                                     !.current_description = st.current_description])
    /\ UNCHANGED <<split_vars, extract_vars, trip_vars, cache_vars, parse_vars,
                   skl, cert, cont>>

\* if current_project: projects.append(...) ; return projects
ProjectsReturn ==
    /\ proj.pc = "loop"
    /\ proj.i > Len(proj.lines)
    /\ proj' = [proj EXCEPT !.pc = "returned", !.projects = SaveProject(proj)]
    /\ UNCHANGED <<split_vars, extract_vars, trip_vars, cache_vars, parse_vars,
                   skl, cert, cont>>

NextProjects == ProjectsCall \/ ProjectsIteration \/ ProjectsReturn
SpecProjects == InitProjects /\ [][NextProjects]_vars


-----------------------------------------------------------------------------
(* extract_contact_info: the slice of the lines, the scans of the lines,   *)
(* the searches of the text                                                *)

MaxContactLines == 2   \* most lines of a text after its padding
MaxPadding == 15       \* most lines before them

ContactTexts == <<"Jane Doe", "Software Engineer", "Jakarta, Indonesia ",
                  "jane@x.io +62 812 3456 789", "", "Lives in the uk",
                  "ukulele">>
\* n lines that nothing of the contact is read from
Padding(n) == [k \in 1 .. n |-> "-"]
Paddings == {0} \cup (ContactLines - 2 .. MaxPadding)

InitContact ==
    /\ \E n \in Paddings, p \in Picks(Len(ContactTexts), MaxContactLines) :
           cont = [pc |-> "call",
                   text |-> join("\n", Padding(n) \o LinesOf(ContactTexts, p)),
                   lines |-> << >>,
                   contact |-> ContactOf(<< >>, "")]
    /\ skl = Idle /\ proj = Idle /\ cert = Idle
    /\ SplitIdle /\ ExtractIdle /\ TripIdle /\ CacheIdle /\ ParseIdle

\* lines = text.split('\n')[:15] ; contact = {'name': None, ...}
ContactCall ==
    /\ cont.pc = "call"
    /\ cont' = [cont EXCEPT !.pc = "lines",
                            !.lines = Slice(split(cont.text, "\n"), 0, ContactLines)]
    /\ UNCHANGED <<split_vars, extract_vars, trip_vars, cache_vars, parse_vars,
                   skl, proj, cert>>

\* The three loops over lines: name, title, location
ContactScan ==
    /\ cont.pc = "lines"
    /\ cont' = [cont EXCEPT !.pc = "text",
                            !.contact.name = NameOf(cont.lines),
                            !.contact.title = TitleOf(cont.lines),
                            !.contact.location = LocationOf(cont.lines)]
    /\ UNCHANGED <<split_vars, extract_vars, trip_vars, cache_vars, parse_vars,
                   skl, proj, cert>>

\* The searches of the whole text, and  return contact
ContactReturn ==
    /\ cont.pc = "text"
    /\ cont' = [cont EXCEPT !.pc = "returned",
                            !.contact = extract_contact_info(cont.text)]
    /\ UNCHANGED <<split_vars, extract_vars, trip_vars, cache_vars, parse_vars,
                   skl, proj, cert>>

NextContact == ContactCall \/ ContactScan \/ ContactReturn
SpecContact == InitContact /\ [][NextContact]_vars


-----------------------------------------------------------------------------
(* parse_work_experience with both of its loops in steps: the head of an   *)
(* outer iteration, the iterations of the inner loop, the append after     *)
(* it.  What the loops ask of a line depends on the lines alone, and is    *)
(* kept beside them: whether the line is blank, the date line found from   *)
(* it, the record its header and that date line give, whether a next job   *)
(* is seen from it, and its text without the bullet.  The method runs      *)
(* without a pause from its call to its return, so a step that can be      *)
(* taken is taken.                                                         *)

MaxCursorLines == 1   \* most lines of a section after its opening

LineFacts(lines, k) ==
    With(DateLineFrom(lines, k), LAMBDA date_line_idx :
        [blank |-> strip(lines[k]) = "",
         date_line_idx |-> date_line_idx,
         job |-> IF date_line_idx = 0 THEN None
                 ELSE Some(Job(lines, k, date_line_idx, << >>)),
         is_next_job |-> IsNextJob(lines, k),
         clean_line |-> CleanBullet(strip(lines[k]))])
RECURSIVE FactsFrom(_, _)
FactsFrom(lines, k) ==
    IF k > Len(lines) THEN << >>
    ELSE <<LineFacts(lines, k)>> \o FactsFrom(lines, k + 1)

InitWorkCursors ==
    /\ \E opening \in WorkOpenings, p \in Picks(Len(WorkLines), MaxCursorLines) :
           work = With(split(join("\n", opening \o LinesOf(WorkLines, p)), "\n"),
                       LAMBDA lines :
                           [pc |-> "call", lines |-> lines,
                            facts |-> FactsFrom(lines, 1),
                            i |-> 0, experiences |-> << >>,
                            date_line_idx |-> 0, j |-> 0, stop |-> FALSE,
                            responsibilities |-> << >>])
    /\ sect = Idle /\ edu = Idle /\ dated = Idle
    /\ SplitIdle /\ ExtractIdle /\ TripIdle /\ CacheIdle
    /\ ListIdle

\* experiences = [] ; i = 0
CursorsCall ==
    /\ work.pc = "call"
    /\ work' = [work EXCEPT !.pc = "loop", !.i = 1]
    /\ UNCHANGED <<list_vars, split_vars, extract_vars, trip_vars, cache_vars, sect, edu, dated>>

\* An iteration of  while i < len(lines)  up to its inner loop: a blank
\* line or no date line ahead, and i += 1 ; else the header is parsed and
\* responsibilities = [] ; j = date_line_idx + 1
OuterStep(w) ==
    IF w.facts[w.i].blank \/ w.facts[w.i].date_line_idx = 0
    THEN [w EXCEPT !.i = @ + 1]
    ELSE [w EXCEPT !.pc = "inner",
                   !.date_line_idx = w.facts[w.i].date_line_idx,
                   !.j = w.facts[w.i].date_line_idx + 1,
                   !.stop = FALSE,
                   !.responsibilities = << >>]
OuterHead ==
    /\ work.pc = "loop"
    /\ work.i <= Len(work.lines)
    /\ work' = OuterStep(work)
    /\ UNCHANGED <<list_vars, split_vars, extract_vars, trip_vars, cache_vars, sect, edu, dated>>

\* (the same, but a blank line leaves j where it is)
InnerStepStaying(w) ==
    IF w.facts[w.j].blank THEN w
    ELSE IF w.facts[w.j].is_next_job THEN [w EXCEPT !.stop = TRUE]
    ELSE [w EXCEPT !.j = @ + 1,
                   !.responsibilities =
                       IF w.facts[w.j].clean_line # ""
                       THEN Append(@, w.facts[w.j].clean_line) ELSE @]
\* One iteration of  while j < len(lines)
InnerStep(w) ==
    IF w.facts[w.j].blank THEN [w EXCEPT !.j = @ + 1]
    ELSE IF w.facts[w.j].is_next_job THEN [w EXCEPT !.stop = TRUE]
    ELSE [w EXCEPT !.j = @ + 1,
                   !.responsibilities =
                       IF w.facts[w.j].clean_line # ""
                       THEN Append(@, w.facts[w.j].clean_line) ELSE @]
InnerIteration ==
    /\ work.pc = "inner"
    /\ work.j <= Len(work.lines) /\ ~work.stop
    /\ work' = InnerStep(work)
    /\ UNCHANGED <<list_vars, split_vars, extract_vars, trip_vars, cache_vars, sect, edu, dated>>

\* experiences.append(WorkExperience(...)) ; i = j
OuterAppend ==
    /\ work.pc = "inner"
    /\ work.j > Len(work.lines) \/ work.stop
    /\ work' = [work EXCEPT !.pc = "loop",
                            !.experiences =
                                Append(@, [work.facts[work.i].job[1] EXCEPT
                                               !.responsibilities = work.responsibilities]),
                            !.i = work.j]
    /\ UNCHANGED <<list_vars, split_vars, extract_vars, trip_vars, cache_vars, sect, edu, dated>>

\* return experiences
CursorsReturn ==
    /\ work.pc = "loop"
    /\ work.i > Len(work.lines)
    /\ work' = [work EXCEPT !.pc = "returned"]
    /\ UNCHANGED <<list_vars, split_vars, extract_vars, trip_vars, cache_vars, sect, edu, dated>>

NextWorkCursors ==
    CursorsCall \/ OuterHead \/ InnerIteration \/ OuterAppend \/ CursorsReturn
SpecWorkCursors ==
    InitWorkCursors /\ [][NextWorkCursors]_vars /\ WF_vars(NextWorkCursors)


\* The claims follow, each with the definitions it is stated in.

-----------------------------------------------------------------------------
(* C9: what detect_column_split returns *)

\* The runs of the claim as written: an integer column x lies inside
\* [0.1 * width, 0.9 * width) and is covered when x0 <= x < x1 for some
\* character.
C9_InRangeAsWritten(p, x) == 20 * x >= p.width /\ 20 * x < 9 * p.width
C9_CoveredAsWritten(p, x) == \E c \in p.chars : c.x0 <= 2 * x /\ 2 * x < c.x1

\* The runs of the code: the columns of range(int(0.1 * width),
\* int(0.9 * width)), a column being marked by every character with
\* int(x0) <= x <= int(x1).
C9_InRangeTruncated(p, x) == x >= p.width \div 20 /\ x < (9 * p.width) \div 20
C9_CoveredTruncated(p, x) == \E c \in p.chars : int(c.x0) <= x /\ x <= int(c.x1)

C9_Columns(p) == 0 .. (p.width \div 2 + 1)

\* The maximal free runs <<start, length>> under a given reading.
C9_RunsAsWritten(p) ==
    { <<a, n>> \in C9_Columns(p) \X (1 .. (p.width \div 2 + 2)) :
        \A x \in a .. (a + n - 1) :
            C9_InRangeAsWritten(p, x) /\ ~C9_CoveredAsWritten(p, x) }
C9_RunsTruncated(p) ==
    { <<a, n>> \in C9_Columns(p) \X (1 .. (p.width \div 2 + 2)) :
        \A x \in a .. (a + n - 1) :
            C9_InRangeTruncated(p, x) /\ ~C9_CoveredTruncated(p, x) }

C9_Longest(runs) ==
    IF runs = {} THEN 0 ELSE CHOOSE n \in { r[2] : r \in runs } :
                                 \A r \in runs : r[2] <= n

\* C9 as amended: on a page with characters and sound geometry a split is
\* returned exactly when the longest run of unmarked columns of
\* range(int(0.1 * width), int(0.9 * width)) is longer than 5, a column being
\* marked by a character when int(x0) <= x <= int(x1); the value is the
\* midpoint of the leftmost longest run; an empty character list or a
\* failure gives None.
C9_SplitIsMiddleOfLongestUnmarkedRun ==
    split_pc = "returned" =>
        LET runs == C9_RunsTruncated(page)
            best == C9_Longest(runs)
        IN  IF page.geometry_fails \/ page.chars = {} \/ best <= 5
            THEN split_x = None
            ELSE LET first == CHOOSE a \in { r[1] : r \in runs } :
                                  /\ <<a, best>> \in runs
                                  /\ \A r \in runs : r[2] = best => a <= r[1]
                 IN  split_x = Some(2 * first + best)

\* A returned split on a page whose characters leave two longest free runs
\* of the same length, so that the choice between them shows.
C9_Witness ==
    /\ split_pc = "returned"
    /\ split_x # None
    /\ LET runs == C9_RunsTruncated(page)
           best == C9_Longest(runs)
       IN  \E r1, r2 \in runs : r1[2] = best /\ r2[2] = best /\ r1[1] # r2[1]

\* C9 as written: a split is returned exactly when the longest run of
\* integer columns inside [0.1 * width, 0.9 * width) covered by no span
\* [x0, x1) is longer than 5, and it is the midpoint of such a run.
C9_AsWritten ==
    (split_pc = "returned" /\ page.chars # {} /\ ~page.geometry_fails) =>
        LET runs == C9_RunsAsWritten(page)
            best == C9_Longest(runs)
        IN  IF best <= 5
            THEN split_x = None
            ELSE /\ split_x # None
                 /\ \E r \in runs : r[2] = best /\ split_x = Some(2 * r[1] + best)

-----------------------------------------------------------------------------
(* C8, C10: what extract_text_from_pdf returns *)

\* The text a page contributes when nothing fails, with a line break after
\* every region text, as C10 is written.
C10_PageTextAsWritten(p) ==
    LET sx == detect_column_split(p)
    IN  IF Truthy(sx)
        THEN extract_text({ c \in p.chars : c.x0 < sx[1] }) \o "\n"
             \o extract_text({ c \in p.chars : c.x1 > sx[1] }) \o "\n"
        ELSE extract_text(p.chars) \o "\n"

\* The same with the line break only after a region text that is not empty.
C10_Line(t) == IF t = "" THEN "" ELSE t \o "\n"
C10_LeftText(p) ==
    C10_Line(extract_text({ c \in p.chars : c.x0 < detect_column_split(p)[1] }))
C10_RightText(p) ==
    C10_Line(extract_text({ c \in p.chars : c.x1 > detect_column_split(p)[1] }))
C10_PageText(p) ==
    IF Truthy(detect_column_split(p))
    THEN C10_LeftText(p) \o C10_RightText(p)
    ELSE C10_Line(extract_text(p.chars))

\* The extraction the page needs raises.
C10_PageFails(p) ==
    IF Truthy(detect_column_split(p))
    THEN p.extract_fails \cap {"left", "right"} # {}
    ELSE "whole" \in p.extract_fails

\* What a failing page still contributes: its left region, when only the
\* right region fails.
C10_PartialText(p) ==
    IF Truthy(detect_column_split(p)) /\ "left" \notin p.extract_fails
    THEN C10_LeftText(p) ELSE ""

RECURSIVE C10_Concat(_, _, _)
C10_Concat(pages, i, last) ==
    IF i > last THEN "" ELSE C10_PageText(pages[i]) \o C10_Concat(pages, i + 1, last)

C10_FirstFailure(pages) ==
    IF \E i \in 1 .. Len(pages) : C10_PageFails(pages[i])
    THEN CHOOSE i \in 1 .. Len(pages) :
             /\ C10_PageFails(pages[i])
             /\ \A j \in 1 .. (i - 1) : ~C10_PageFails(pages[j])
    ELSE Len(pages) + 1

\* C10 as amended: the extracted text is the concatenation, in page order,
\* of the texts of the pages before the first page whose extraction raises
\* (all pages when none does): a page with a split gives its left region
\* text then its right region text, a page without one its whole text, each
\* followed by a line break when it is not empty and contributing nothing
\* when it is; a page whose right region raises still gives its left text.
C10_TextIsPagesInOrder ==
    (ext_pc = "returned" /\ ~pdf.open_fails) =>
        LET f == C10_FirstFailure(pdf.pages)
        IN  text = C10_Concat(pdf.pages, 1, f - 1)
                   \o (IF f <= Len(pdf.pages)
                       THEN C10_PartialText(pdf.pages[f]) ELSE "")

\* A returned three-page text with a two-column page between two others,
\* one of them without any text.
C10_Witness ==
    /\ ext_pc = "returned"
    /\ Len(pdf.pages) = 3
    /\ \A i \in 1 .. 3 : ~C10_PageFails(pdf.pages[i])
    /\ pdf.pages[1].chars = OneColumn
    /\ pdf.pages[2].chars = {}
    /\ pdf.pages[3].chars = TwoColumns /\ ~pdf.pages[3].geometry_fails
    /\ text = "Ann Lee\nSkills\nEducation\nBSc\nProjects\nWeb: shop\n"

RECURSIVE C10_ConcatAsWritten(_, _)
C10_ConcatAsWritten(pages, i) ==
    IF i > Len(pages) THEN ""
    ELSE C10_PageTextAsWritten(pages[i]) \o C10_ConcatAsWritten(pages, i + 1)

\* C10 as written: when no extraction raises, the text is the concatenation
\* in page order of each page's text followed by a line break (left region,
\* line break, right region, line break on a page with a split).
C10_AsWritten ==
    (/\ ext_pc = "returned"
     /\ ~pdf.open_fails
     /\ \A i \in 1 .. Len(pdf.pages) : ~C10_PageFails(pdf.pages[i]))
    => text = C10_ConcatAsWritten(pdf.pages, 1)

\* The texts C8 allows: every page that does not fail contributes its
\* text, in page order; a page that fails contributes nothing (or, read
\* generously, the left region it had already read when the right one
\* failed).
RECURSIVE C8_Allowed(_, _)
C8_Allowed(pages, i) ==
    IF i > Len(pages) THEN {""}
    ELSE LET own == IF C10_PageFails(pages[i])
                    THEN {"", C10_PartialText(pages[i])}
                    ELSE {C10_PageText(pages[i])}
         IN  { a \o b : a \in own, b \in C8_Allowed(pages, i + 1) }

\* C8: a page whose extraction fails degrades to empty text for that page
\* only; the text of every other page, before and after it, still appears
\* in the extracted text, in page order.
C8_FailedPageAloneIsEmpty ==
    (ext_pc = "returned" /\ ~pdf.open_fails) =>
        text \in C8_Allowed(pdf.pages, 1)

-----------------------------------------------------------------------------
(* C3: the round trip through the cache's serialized form *)

\* C3: a CVData serialized with dataclass_to_dict, encoded and decoded as
\* JSON and rebuilt with _reconstruct_cv_data is equal to the original in
\* every field, nested records and empty collections included; the text
\* always decodes and the rebuilding never raises.
C3_RoundTripIsIdentity ==
    /\ trip.pc = "loaded" => trip.loaded.ok /\ trip.loaded.v = trip.dict
    /\ trip.pc = "rebuilt" => trip.rebuilt.ok /\ trip.rebuilt.v = trip.cv

\* A value with nested records, an empty collection and escaped characters
\* has made the whole trip.
C3_Witness ==
    /\ trip.pc = "rebuilt"
    /\ Len(trip.cv.work_experience) = 2
    /\ trip.cv.work_experience[1].responsibilities = << >>
    /\ Len(trip.cv.education) = 2
    /\ Len(trip.cv.technical_skills) = 3
    /\ trip.cv.summary # None /\ contains(trip.cv.summary[1], Quote)
    /\ contains(trip.text, "\\u2013")
    /\ trip.rebuilt.v = trip.cv

-----------------------------------------------------------------------------
(* C11, C12: what split_into_sections returns *)

\* The lines that are the heading of section k
C11_HeadingLines(lines, k) ==
    { n \in 1 .. Len(lines) : HeaderOf(strip(lines[n])) = Some(k) }
\* The first heading line after line n, or the line after the last
C11_NextHeading(lines, n) ==
    LET later == { m \in n + 1 .. Len(lines) : HeaderOf(strip(lines[m])) # None }
    IN  IF later = {} THEN Len(lines) + 1 ELSE Least(later)
\* The non-blank lines between heading line n and the next heading
C11_Body(lines, n) ==
    SelectSeq(SubSeq(lines, n + 1, C11_NextHeading(lines, n) - 1),
              LAMBDA l : strip(l) # "")
C11_Names == { SectionNames[n] : n \in 1 .. Len(SectionNames) }

\* C11: the mapping returned by split_into_sections holds a section
\* identifier exactly when one of its heading lines is followed by at least
\* one non-blank line before the next heading line (or the end); its value is
\* then the newline-joined non-blank lines, as they stand in the text, after
\* the last such heading line.  Lines before the first heading and heading
\* lines are in no body, and nothing else is a key.
C11_SectionsAreBodies ==
    sect.pc = "returned" =>
        /\ Keys(sect.sections) \subseteq C11_Names
        /\ \A k \in C11_Names :
               LET full == { n \in C11_HeadingLines(sect.lines, k) :
                                 C11_Body(sect.lines, n) # << >> }
               IN  IF full = {} THEN ~Has(sect.sections, k)
                   ELSE /\ Has(sect.sections, k)
                        /\ At(sect.sections, k)
                             = join("\n", C11_Body(sect.lines, Greatest(full)))

\* a text with lines before the first heading, a heading met twice with a
\* body each time, and a blank line in a body
C11_Witness ==
    /\ sect.pc = "returned"
    /\ Cardinality({ n \in C11_HeadingLines(sect.lines, "technical_skills") :
                         C11_Body(sect.lines, n) # << >> }) = 2
    /\ \E n \in 1 .. Len(sect.lines) : sect.lines[n] = ""
    /\ Has(sect.sections, "technical_skills")
    /\ Has(sect.sections, "education")

\* C11 as the specification words it: every heading line's identifier is
\* mapped to the lines up to the next heading, and the identifiers without a
\* heading line are absent.
C11_AsWritten ==
    sect.pc = "returned" =>
        \A k \in C11_Names :
            IF C11_HeadingLines(sect.lines, k) = {} THEN ~Has(sect.sections, k)
            ELSE \A n \in C11_HeadingLines(sect.lines, k) :
                     /\ Has(sect.sections, k)
                     /\ At(sect.sections, k) = join("\n", C11_Body(sect.lines, n))

\* xs is a subsequence of ys: its elements are elements of ys in their order
RECURSIVE C12_IsSubsequence(_, _)
C12_IsSubsequence(xs, ys) ==
    IF xs = << >> THEN TRUE
    ELSE IF ys = << >> THEN FALSE
    ELSE IF Head(xs) = Head(ys) THEN C12_IsSubsequence(Tail(xs), Tail(ys))
    ELSE C12_IsSubsequence(xs, Tail(ys))
\* The lines of all bodies, in the order of the mapping
RECURSIVE C12_BodyLines(_)
C12_BodyLines(sections) ==
    IF sections = << >> THEN << >>
    ELSE split(Head(sections).v, "\n") \o C12_BodyLines(Tail(sections))

\* C12: the lines of the bodies of the returned mapping, taken in the order
\* of the mapping, are a subsequence of the lines of the text.
C12_BodiesAreSubsequence ==
    sect.pc = "returned" =>
        C12_IsSubsequence(C12_BodyLines(sect.sections), sect.lines)

-----------------------------------------------------------------------------
(* C13 .. C16: the records of parse_work_experience *)

\* The line holds a date range
C16_IsDateLine(line) == search(date_range_pattern, line).ok
C16_DateLines(lines) == { n \in 1 .. Len(lines) : C16_IsDateLine(lines[n]) }
\* The n-th element of a set of integers in increasing order
C16_Sorted(S) ==
    [n \in 1 .. Cardinality(S) |->
        CHOOSE x \in S : Cardinality({ y \in S : y < x }) = n - 1]

\* C16: at the return of parse_work_experience its records are, in the order
\* of the text, one for each line that holds a date range: the n-th record
\* has the n-th such line as its date line, found within the three lines
\* from where its header started, and carries its two dates; a text without
\* such a line gives no record.
C16_RecordsAreDateLines ==
    work.pc = "returned" =>
        LET dates == C16_Sorted(C16_DateLines(work.lines))
        IN  /\ Len(work.experiences) = Len(dates)
            /\ Len(work.blocks) = Len(dates)
            /\ \A n \in 1 .. Len(dates) :
                   /\ work.blocks[n].date = dates[n]
                   /\ work.blocks[n].i <= dates[n]
                   /\ dates[n] - work.blocks[n].i < LookAhead
                   /\ LET line == strip(work.lines[dates[n]])
                          m == search(date_range_pattern, line)
                      IN  /\ work.experiences[n].start_date = group(m, line, 1)
                          /\ work.experiences[n].end_date = group(m, line, 2)

\* a section with two records after a line that holds no date range, has
\* none within the three lines from it and gives no record
C16_Witness ==
    /\ work.pc = "returned"
    /\ Len(work.experiences) = 2
    /\ strip(work.lines[1]) # ""
    /\ work.blocks[1].i > 1

-----------------------------------------------------------------------------
(* C13, C14, C15: the header and the responsibilities of a record.  The    *)
(* n-th record has the block work.blocks[n]: its header is the lines i to  *)
(* date - 1, its date line is line date and the lines after it up to line  *)
(* next - 1 were read for its responsibilities.                            *)

C13_HasRole(l) == \E k \in pos_keywords : contains(lower(l), k)

\* C13: a record whose header has two lines takes, when exactly one of the
\* two lines holds a role keyword, that line as its position and the other
\* as its company; when both or neither do, the first line is the company
\* and the second the position.
C13_TwoLineHeader ==
    \A n \in 1 .. Len(work.blocks) :
        work.blocks[n].date - work.blocks[n].i = 2 =>
            LET l1 == strip(work.lines[work.blocks[n].i])
                l2 == strip(work.lines[work.blocks[n].i + 1])
                rec == work.experiences[n]
            IN  IF C13_HasRole(l1) # C13_HasRole(l2)
                THEN /\ rec.position = (IF C13_HasRole(l1) THEN l1 ELSE l2)
                     /\ rec.company = (IF C13_HasRole(l1) THEN l2 ELSE l1)
                ELSE rec.company = l1 /\ rec.position = l2

\* a record whose header is a line with a role keyword and then a line
\* without one
C13_Witness ==
    \E n \in 1 .. Len(work.blocks) :
        /\ work.blocks[n].date - work.blocks[n].i = 2
        /\ C13_HasRole(work.lines[work.blocks[n].i])
        /\ ~C13_HasRole(work.lines[work.blocks[n].i + 1])
        /\ work.experiences[n].position = work.lines[work.blocks[n].i]
        /\ work.experiences[n].company = work.lines[work.blocks[n].i + 1]
        /\ work.experiences[n].company # ""

\* The separator of a one-line header: '|' before ' at ', "" for neither
C14_Separator(l) ==
    IF contains(l, "|") THEN "|" ELSE IF contains(l, " at ") THEN " at " ELSE ""
C14_Before(l, sep) == SubSeq(l, 1, find(l, sep) - 1)
C14_After(l, sep) == SubSeq(l, find(l, sep) + Len(sep), Len(l))

\* C14: a record whose header has one line takes, when the line holds '|'
\* or else ' at ', the part before the separator as its position and the
\* part after it as its company; with neither separator the whole line is
\* the position when it holds a role keyword and the company otherwise, the
\* other field being empty.
C14_OneLineHeader ==
    \A n \in 1 .. Len(work.blocks) :
        work.blocks[n].date - work.blocks[n].i = 1 =>
            LET l1 == strip(work.lines[work.blocks[n].i])
                sep == C14_Separator(l1)
                rec == work.experiences[n]
            IN  IF sep # ""
                THEN /\ rec.position = strip(C14_Before(l1, sep))
                     /\ rec.company = strip(C14_After(l1, sep))
                ELSE IF C13_HasRole(l1)
                THEN rec.position = l1 /\ rec.company = ""
                ELSE rec.position = "" /\ rec.company = l1

\* A line of the responsibilities without its bullet marker
C15_Unmarked(l) ==
    IF Chr(l, 1) \in {Bullet, "-"} THEN strip(SubSeq(l, 2, Len(l))) ELSE l
\* The lines from..to of lines that are not blank, stripped and without
\* their marker; those that are no more than a marker are left out unless
\* all is asked for
RECURSIVE C15_Kept(_, _, _, _)
C15_Kept(lines, from, to, all) ==
    IF from > to THEN << >>
    ELSE (IF strip(lines[from]) # "" /\ (all \/ C15_Unmarked(strip(lines[from])) # "")
          THEN <<C15_Unmarked(strip(lines[from]))>> ELSE << >>)
         \o C15_Kept(lines, from + 1, to, all)
\* A date range in one of the three lines from line j on
C15_DateAhead(lines, j) ==
    \E k \in j .. j + 2 : k <= Len(lines) /\ C16_IsDateLine(lines[k])
\* Where the responsibilities of block b end: before the first non-blank
\* line after its date line with a date range ahead, or at the end
C15_Ends(lines, b) ==
    /\ b.next > b.date /\ b.next <= Len(lines) + 1
    /\ b.next <= Len(lines) =>
           strip(lines[b.next]) # "" /\ C15_DateAhead(lines, b.next)
    /\ \A j \in b.date + 1 .. b.next - 1 :
           strip(lines[j]) # "" => ~C15_DateAhead(lines, j)

\* C15: the responsibilities of a record are the non-blank lines after its
\* date line, in order, stripped and with one leading bullet marker
\* removed, those that are nothing but a marker left out, up to the first
\* non-blank line with a date range in the three lines from it on; so no
\* line of the responsibilities, nor one of the two after it, holds a date
\* range.
C15_Responsibilities ==
    \A n \in 1 .. Len(work.blocks) :
        /\ C15_Ends(work.lines, work.blocks[n])
        /\ work.experiences[n].responsibilities =
               C15_Kept(work.lines, work.blocks[n].date + 1,
                        work.blocks[n].next - 1, FALSE)

\* a record with a responsibility, a line that is nothing but a marker and a
\* blank line, ended by the header of the next record
C15_Witness ==
    /\ Len(work.blocks) >= 2
    /\ work.experiences[1].responsibilities = <<"did">>
    /\ work.blocks[2].i = work.blocks[1].next
    /\ work.blocks[2].date > work.blocks[2].i
    /\ \E j \in work.blocks[1].date + 1 .. work.blocks[1].next - 1 :
           work.lines[j] = "-"
    /\ \E j \in work.blocks[1].date + 1 .. work.blocks[1].next - 1 :
           work.lines[j] = ""

\* The claim as written: every non-blank line is a responsibility
C15_AsWritten ==
    \A n \in 1 .. Len(work.blocks) :
        /\ C15_Ends(work.lines, work.blocks[n])
        /\ work.experiences[n].responsibilities =
               C15_Kept(work.lines, work.blocks[n].date + 1,
                        work.blocks[n].next - 1, TRUE)


-----------------------------------------------------------------------------
(* C17: what the date range pattern matches *)

C17_Dashes == {"-", EnDash, EmDash}
C17_IsYear(s, i) == i >= 1 /\ i + 3 <= Len(s) /\ \A k \in i .. i + 3 : Chr(s, k) \in Digit
\* The first position from i on, forwards, that holds no white space, and
\* the last one up to i, backwards
RECURSIVE C17_Onward(_, _)
C17_Onward(s, i) == IF Chr(s, i) \in Space THEN C17_Onward(s, i + 1) ELSE i
RECURSIVE C17_Backward(_, _)
C17_Backward(s, i) == IF Chr(s, i) \in Space THEN C17_Backward(s, i - 1) ELSE i
\* The word t in any case from position i on
C17_WordAt(s, t, i) ==
    /\ i >= 1 /\ i + Len(t) - 1 <= Len(s)
    /\ lower(SubSeq(s, i, i + Len(t) - 1)) = lower(t)
\* A month name, any letters, white space and a year, from position i on
C17_IsMonthYear(s, i) ==
    /\ \E n \in 1 .. Len(MonthNames) : C17_WordAt(s, MonthNames[n], i)
    /\ \E j \in i + 3 .. Len(s) :
           /\ \A k \in i + 3 .. j - 1 : Chr(s, k) \in AnyCase
           /\ Chr(s, j) \in Space
           /\ C17_IsYear(s, C17_Onward(s, j))
\* A start ends at position j: every start ends with a year
C17_StartEnds(s, j) == C17_IsYear(s, j - 3)
\* An end starts at position i
C17_EndStarts(s, i) ==
    \/ C17_IsMonthYear(s, i)
    \/ C17_IsYear(s, i)
    \/ C17_WordAt(s, "Present", i)
    \/ C17_WordAt(s, "Current", i)
\* The line holds a start, a dash and an end, white space allowed around the
\* dash
C17_HasRange(s) ==
    \E d \in 1 .. Len(s) :
        /\ Chr(s, d) \in C17_Dashes
        /\ C17_StartEnds(s, C17_Backward(s, d - 1))
        /\ C17_EndStarts(s, C17_Onward(s, d + 1))

\* C17: the date range pattern is found in a line exactly when the line
\* holds a start (a month name with a year, or a year), a dash (hyphen, en
\* dash or em dash) and an end (a month name with a year, a year, Present or
\* Current); it is found in "Jan 2020 ~ Present" and in "2019-2021" and not
\* in a line whose only date is "2020".
C17_DateRangePattern ==
    dated.pc = "searched" =>
        /\ dated.date_match.ok = C17_HasRange(dated.line)
        /\ dated.line \in {"Jan 2020 ~ Present", "2019-2021"} => dated.date_match.ok
        /\ dated.line = "Jan 2020 ~ Present" =>
               /\ group(dated.date_match, dated.line, 1) = "Jan 2020"
               /\ group(dated.date_match, dated.line, 2) = "Present"
        /\ dated.line = "2019-2021" =>
               /\ group(dated.date_match, dated.line, 1) = "2019"
               /\ group(dated.date_match, dated.line, 2) = "2021"
        /\ dated.line = "2020" => ~dated.date_match.ok

\* the search has found the range of "Jan 2020 ~ Present"
C17_Witness ==
    /\ dated.pc = "searched"
    /\ dated.line = "Jan 2020 ~ Present"
    /\ dated.date_match.ok
    /\ group0(dated.date_match, dated.line) = dated.line


-----------------------------------------------------------------------------
(* C18 .. C20: the cursor and the records of parse_education.  The n-th    *)
(* record has the block edu.blocks[n]: line i is its degree line, line     *)
(* i + 1 its institution line.                                             *)

C18_HasYear(l) == \E k \in 1 .. Len(l) - 3 : \A d \in k .. k + 3 : Chr(l, d) \in Digit
\* A candidate degree line: not blank and without a number of four digits
C18_IsDegreeLine(l) == strip(l) # "" /\ ~C18_HasYear(l)
C18_Lines == IF edu.pc = "idle" THEN << >> ELSE edu.lines
C18_Seen == IF edu.pc = "idle" THEN << >> ELSE edu.seen
C18_Blocks == IF edu.pc = "idle" THEN << >> ELSE edu.blocks
\* The cursor after the iterations so far
C18_Next(k) == IF k < Len(C18_Seen) THEN C18_Seen[k + 1] ELSE edu.i

\* C18: the cursor of parse_education advances by two lines in an iteration
\* whose line is a candidate degree line, and by one line in any other; a
\* record is made of a candidate degree line and the line after it, and
\* that line, the institution line, is not examined again.
C18_CursorSkipsInstitution ==
    /\ \A k \in 1 .. Len(C18_Seen) :
           C18_Next(k) - C18_Seen[k] =
               IF C18_IsDegreeLine(C18_Lines[C18_Seen[k]]) THEN 2 ELSE 1
    /\ \A n \in 1 .. Len(C18_Blocks) :
           /\ C18_IsDegreeLine(C18_Lines[C18_Blocks[n].i])
           /\ C18_Blocks[n].i + 1 <= Len(C18_Lines)
           /\ \A k \in 1 .. Len(C18_Seen) : C18_Seen[k] # C18_Blocks[n].i + 1

\* two records one after the other, the institution line of the first
\* being itself a candidate degree line
C18_Witness ==
    /\ edu.pc = "returned"
    /\ Len(edu.blocks) = 2
    /\ edu.blocks[2].i = edu.blocks[1].i + 2
    /\ C18_IsDegreeLine(edu.lines[edu.blocks[1].i + 1])

\* The claim as written: one line per iteration, the institution line of a
\* record being examined in the next one
C18_AsWritten ==
    /\ \A k \in 1 .. Len(C18_Seen) : C18_Next(k) - C18_Seen[k] = 1
    /\ \A n \in 1 .. Len(C18_Blocks) :
           C18_Blocks[n].i + 1 <= Len(C18_Seen) =>
               \E k \in 1 .. Len(C18_Seen) : C18_Seen[k] = C18_Blocks[n].i + 1

\* The two lines of the n-th record, and what is read from them
C19_Line(n) == strip(C18_Lines[C18_Blocks[n].i])
C19_NextLine(n) == strip(C18_Lines[C18_Blocks[n].i + 1])
C19_Both(n) == C19_Line(n) \o " " \o C19_NextLine(n)
C19_Years(n) == findall(year_pattern, C19_Both(n))

\* C19: a record whose two lines hold no date range takes its dates from
\* the numbers of four digits of the two lines: with two or more, the first
\* is start_date and the last end_date; with one, it is start_date and
\* end_date is "Present"; with none, both are empty.
C19_DatesFromYears ==
    \A n \in 1 .. Len(C18_Blocks) :
        ~search(education_date_pattern, C19_Both(n)).ok =>
            LET years == C19_Years(n)
                rec == edu.education_list[n]
            IN  IF Len(years) >= 2
                THEN rec.start_date = years[1] /\ rec.end_date = years[Len(years)]
                ELSE IF Len(years) = 1
                THEN rec.start_date = years[1] /\ rec.end_date = "Present"
                ELSE rec.start_date = "" /\ rec.end_date = ""

C20_HasAny(s, keywords) == \E k \in keywords : contains(lower(s), k)
\* The institution and the location as read from the institution line
C20_Parts(n) == split(strip(sub(education_date_pattern, C19_NextLine(n))), ",")
C20_Institution(n) == strip(C20_Parts(n)[1])
C20_Swaps(degree, institution) ==
    \/ C20_HasAny(degree, inst_keywords) /\ C20_HasAny(institution, degree_keywords)
    \/ C20_HasAny(degree, inst_keywords) /\ ~C20_HasAny(degree, degree_keywords)
    \/ C20_HasAny(institution, degree_keywords) /\ ~C20_HasAny(institution, inst_keywords)

\* C20: the degree and the institution of a record are the institution text
\* and the degree line, in that order, exactly when the degree line holds
\* an institution keyword and the institution text a degree keyword, or the
\* degree line holds an institution keyword and no degree keyword, or the
\* institution text holds a degree keyword and no institution keyword; they
\* are as read otherwise.  At the return every candidate degree line that
\* was examined and has a line after it has given its record, and the dates
\* and the location of a record are those read from its two lines either
\* way.
C20_SwapRule ==
    edu.pc = "returned" =>
    /\ Len(edu.blocks) = Len(edu.education_list)
    /\ \A k \in 1 .. Len(edu.lines) - 1 :
           C18_IsDegreeLine(edu.lines[k]) /\ (\E j \in 1 .. Len(edu.seen) : edu.seen[j] = k)
               => \E n \in 1 .. Len(edu.blocks) : edu.blocks[n].i = k
    /\ \A n \in 1 .. Len(edu.blocks) :
           LET rec == edu.education_list[n]
               swapped == C20_Swaps(C19_Line(n), C20_Institution(n))
               dates == EducationDates(C19_Both(n))
               parts == C20_Parts(n)
           IN  /\ rec.degree = (IF swapped THEN C20_Institution(n) ELSE C19_Line(n))
               /\ rec.institution = (IF swapped THEN C19_Line(n) ELSE C20_Institution(n))
               /\ rec.start_date = dates.start_date
               /\ rec.end_date = dates.end_date
               /\ rec.location = (IF Len(parts) > 1
                                 THEN join(", ", StripAll(Tail(parts))) ELSE "")

\* a record whose degree line holds an institution keyword alone and whose
\* institution text holds no keyword: the two have changed places
C20_Witness ==
    /\ edu.pc = "returned"
    /\ \E n \in 1 .. Len(edu.blocks) :
           /\ C20_HasAny(C19_Line(n), inst_keywords)
           /\ ~C20_HasAny(C19_Line(n), degree_keywords)
           /\ ~C20_HasAny(C20_Institution(n), degree_keywords)
           /\ ~C20_HasAny(C20_Institution(n), inst_keywords)
           /\ C20_Institution(n) # ""
           /\ edu.education_list[n].degree = C20_Institution(n)
           /\ edu.education_list[n].institution = C19_Line(n)


-----------------------------------------------------------------------------
(* C7: documents without characters *)

\* No page of the document holds a character
C7_NoCharacters(doc) == \A n \in 1 .. Len(doc.pages) : doc.pages[n].chars = {}

\* C7: for a document none of whose pages holds a character, parse_cv_logic
\* returns the default CVData: every scalar field is None and every
\* collection is empty.
C7_NoTextGivesDefault ==
    logic.pc = "returned" /\ C7_NoCharacters(logic.doc) =>
        /\ logic.text = ""
        /\ logic.cv_data = DefaultCVData
        /\ \A f \in OptionalFields : logic.cv_data[f] = None
        /\ \A f \in FieldSet(CVDataFields) \ OptionalFields : Len(logic.cv_data[f]) = 0

\* a document of several pages without characters has been parsed
C7_Witness ==
    /\ logic.pc = "returned"
    /\ Len(logic.doc.pages) >= 2
    /\ C7_NoCharacters(logic.doc)
    /\ logic.cv_data = DefaultCVData


-----------------------------------------------------------------------------
(* C2: what a miss stores *)

C2_Day == 24 * 60 * 60

\* The key of the file of the requests
C2_Key == "cv:" \o hexdigest(file.bytes)

\* Request c takes its last step, after a miss that no exception caused
C2_MissReturns(c) ==
    /\ redis # None
    /\ calls[c].pc = "parse" /\ calls[c].faults = {}
    /\ calls'[c].pc # "parse" /\ calls'[c].faults = {}

\* C2: a request that missed with a working backend has run parse_cv_logic
\* (once: it is in its only parse step), leaves under "cv:" + the SHA-256
\* hex digest of the file's bytes the JSON text of the result with 24 hours
\* (86400 seconds) to live, and returns the value parse_cv_logic computed;
\* so for every result, the all-default one included.
C2_MissStoresAndReturns ==
    [][\A c \in 1 .. Len(calls) :
          C2_MissReturns(c) =>
              /\ calls'[c].pc = "returned"
              /\ calls'[c].parsed /\ ~calls[c].parsed
              /\ calls'[c].cv_data = file.cv
              /\ Has(store', C2_Key)
              /\ At(store', C2_Key) =
                    [value |-> json_dumps(dataclass_to_dict(file.cv)), ttl |-> C2_Day]
              /\ Len(hexdigest(file.bytes)) = 64]_vars

\* a miss has stored the all-default result, and the entry is still whole
C2_Witness ==
    /\ redis # None
    /\ \E c \in 1 .. Len(calls) :
          /\ calls[c].pc = "returned" /\ calls[c].parsed /\ calls[c].faults = {}
          /\ calls[c].cv_data = DefaultCVData
          /\ calls[c].setex # << >>
          /\ Has(store, C2_Key)
          /\ At(store, C2_Key) = [value |-> calls[c].setex[3], ttl |-> C2_Day]

-----------------------------------------------------------------------------
(* C1: the second of two requests *)

\* Nothing went wrong with the backend during request c, and no other
\* client has written
C1_Working(c) == redis # None /\ ~foreign /\ calls[c].faults = {}

\* C1: with a working backend, a request that began after another had
\* returned and stored its result, less than the time to live before,
\* returns a value equal to the one the other returned, and has not run
\* parse_cv_logic.
C1_SecondCallIsServedFromCache ==
    \A c \in 1 .. Len(calls) : \A b \in calls[c].window :
        C1_Working(c) /\ C1_Working(b) =>
            /\ calls[c].pc = "returned"
            /\ calls[c].hit /\ ~calls[c].parsed
            /\ calls[c].cv_data = calls[b].cv_data

\* the second request of a CV was served from the cache
C1_Witness ==
    /\ file = CVFile
    /\ \E c \in 1 .. Len(calls) : \E b \in calls[c].window :
          /\ C1_Working(c) /\ C1_Working(b)
          /\ calls[b].parsed /\ calls[c].hit
          /\ calls[c].cv_data.summary = Some("Builds tools")
          /\ Len(calls[c].cv_data.work_experience) = 1

-----------------------------------------------------------------------------
(* C4: failures of the cache *)

\* Request c met one of the failures of the cache
C4_CacheFailed(c) == redis = None \/ calls[c].faults # {}

C4_Finished(c) == calls[c].pc \in {"returned", "raised"}

\* C4 as written: whenever the backend is absent, or the get raised, or the
\* cached value did not decode, or the set raised, the request returns the
\* value of parse_cv_logic and raises nothing.
C4_AsWritten ==
    \A c \in 1 .. Len(calls) :
        C4_CacheFailed(c) /\ C4_Finished(c) =>
            calls[c].pc = "returned" /\ calls[c].cv_data = file.cv

\* C4: for a file that can be read, whenever the backend is absent, or the
\* get raised, or the cached value did not decode, or the set raised, the
\* request returns the value of parse_cv_logic and raises nothing.
C4_CacheFailuresAreHarmless ==
    \A c \in 1 .. Len(calls) :
        file.readable /\ C4_CacheFailed(c) /\ C4_Finished(c) =>
            calls[c].pc = "returned" /\ calls[c].cv_data = file.cv

\* each of the failures has happened to a request of a CV, which returned
C4_Witness ==
    /\ file = CVFile
    /\ \E c \in 1 .. Len(calls) :
          calls[c].pc = "returned" /\ calls[c].faults = {"get", "set"}
    /\ \E c \in 1 .. Len(calls) :
          calls[c].pc = "returned" /\ "decode" \in calls[c].faults

\* the backend is absent, and a request has returned
C4_WitnessAbsent ==
    /\ redis = None /\ file = CVFile
    /\ \E c \in 1 .. Len(calls) : calls[c].pc = "returned" /\ calls[c].parsed

-----------------------------------------------------------------------------
(* C6: the one hard failure *)

\* C6: a request raises exactly when its file cannot be read, and then it
\* has begun no cache operation and the store is as it was; with any other
\* failure (a document that does not open, an exception of the cache) it
\* goes on to return a CVData.
C6_OnlyUnreadableRaises ==
    \A c \in 1 .. Len(calls) :
        /\ (calls[c].pc = "raised") = ~file.readable
        /\ calls[c].pc = "raised" => calls[c].ops = 0 /\ store = << >>
        /\ file.readable => calls[c].pc \in {"parse", "returned"}

\* a request for an unreadable file has raised
C6_Witness ==
    /\ ~file.readable /\ redis # None
    /\ \E c \in 1 .. Len(calls) : calls[c].pc = "raised" /\ calls[c].ops = 0

\* a request for a file that is no PDF has returned though the cache raised
C6_WitnessReturned ==
    /\ file = NotPdf
    /\ \E c \in 1 .. Len(calls) :
          calls[c].pc = "returned" /\ calls[c].faults = {"get", "set"}

-----------------------------------------------------------------------------
(* C5: requests side by side *)

\* The requests that have written into the cache
C5_Writers == { c \in 1 .. Len(calls) : calls[c].setex # << >> }

\* C5: when only parse_cv requests write into the cache, then however
\* their steps interleave, every request that did not return a cached value
\* has run parse_cv_logic itself, all requests return the same value, all
\* writes carry the same text, and that text is what the store holds.
C5_ConcurrentRequestsAgree ==
    ~foreign =>
        /\ \A c \in 1 .. Len(calls) :
              calls[c].pc = "returned" =>
                  /\ calls[c].parsed = ~calls[c].hit
                  /\ calls[c].cv_data = file.cv
        /\ \A c, d \in C5_Writers : calls[c].setex = calls[d].setex
        /\ \A n \in 1 .. Len(store) :
              \E c \in C5_Writers :
                  store[n].k = calls[c].setex[1] /\ store[n].v.value = calls[c].setex[3]

\* two requests of a CV both missed, both parsed and both wrote
C5_Witness ==
    /\ file = CVFile /\ ~foreign
    /\ \E c, d \in C5_Writers :
          /\ c # d
          /\ d \notin calls[c].window /\ c \notin calls[d].window
          /\ calls[c].faults = {} /\ calls[d].faults = {}
          /\ calls[c].parsed /\ calls[d].parsed
    /\ Len(store) = 1


-----------------------------------------------------------------------------
(* C21: the date range of parse_work_experience in parse_education *)

\* The date range parse_work_experience would find in the two lines of
\* record n
C21_Range(n) == search(date_range_pattern, C19_Both(n))

\* That range runs from a year to Current
C21_YearToCurrent(n) ==
    /\ C21_Range(n).ok
    /\ Len(group(C21_Range(n), C19_Both(n), 1)) = 4
    /\ C17_IsYear(group(C21_Range(n), C19_Both(n), 1), 1)
    /\ lower(group(C21_Range(n), C19_Both(n), 2)) = "current"

\* The institution line of record n without its date range, split on commas
C21_Parts(n) == StripAll(split(strip(sub(date_range_pattern, C19_NextLine(n))), ","))

\* C21: a record whose two lines hold a range from a year to Current has
\* the year as start_date and Current as end_date, and its institution and
\* location are the comma-separated parts of the institution line without
\* the range.
C21_CurrentEndsARange ==
    \A n \in 1 .. Len(C18_Blocks) :
        C21_YearToCurrent(n) =>
            LET rec == edu.education_list[n]
            IN  /\ rec.start_date = group(C21_Range(n), C19_Both(n), 1)
                /\ lower(rec.end_date) = "current"
                /\ C21_Parts(n)[1] \in {rec.institution, rec.degree}
                /\ rec.location = IF Len(C21_Parts(n)) > 1
                                  THEN join(", ", Tail(C21_Parts(n))) ELSE ""


-----------------------------------------------------------------------------
(* C22: certifications *)

C22_Months == {"Jan", "Feb", "Mar", "Apr", "May", "Jun",
               "Jul", "Aug", "Sep", "Oct", "Nov", "Dec"}
\* w is the short name of a month or, when any is allowed, has the shape
\* of one: a capital and two small letters
C22_IsWord(w, any) ==
    IF any
    THEN Chr(w, 1) \in Upper /\ Chr(w, 2) \in Lower /\ Chr(w, 3) \in Lower
    ELSE w \in C22_Months

\* Positions i .. j of l hold a token: a word of three letters, white space,
\* four digits
C22_TokenAt(l, i, j, any) ==
    /\ 1 <= i /\ i + 7 <= j /\ j <= Len(l)
    /\ C22_IsWord(SubSeq(l, i, i + 2), any)
    /\ \A k \in i + 3 .. j - 4 : Chr(l, k) \in Space
    /\ \A k \in j - 3 .. j : Chr(l, k) \in Digit
C22_Tokens(l, any) ==
    { t \in (1 .. Len(l)) \X (1 .. Len(l)) : C22_TokenAt(l, t[1], t[2], any) }
C22_HasToken(l, any) == C22_Tokens(l, any) # {}
\* The first token of l
C22_First(l, any) ==
    CHOOSE t \in C22_Tokens(l, any) :
        \A u \in C22_Tokens(l, any) : t[1] <= u[1]

C22_Lines == IF cert.pc \in {"idle", "call"} THEN << >> ELSE cert.lines
C22_Line(k) == strip(C22_Lines[k])
\* Line k is taken as the issuer of the line before it
C22_IsIssuer(k, any) ==
    /\ k > 1
    /\ C22_HasToken(C22_Line(k - 1), any)
    /\ ~C22_HasToken(C22_Line(k), any)
\* The lines that yield a certification, in order
RECURSIVE C22_TokenLines(_, _, _)
C22_TokenLines(k, n, any) ==
    IF k > n THEN << >>
    ELSE (IF C22_HasToken(C22_Line(k), any) THEN <<k>> ELSE << >>)
         \o C22_TokenLines(k + 1, n, any)
\* The certification the rule makes of line k
C22_Of(k, any) ==
    LET l == C22_Line(k)
        t == C22_First(l, any)
    IN  Certification(SubSeq(l, t[1], t[2]), strip(SubSeq(l, 1, t[1] - 1)),
                      IF k + 1 <= Len(C22_Lines) /\ C22_IsIssuer(k + 1, any)
                      THEN C22_Line(k + 1) ELSE "")
\* The rule, for month names or for any word of their shape
C22_Rule(any) ==
    cert.pc = "returned" =>
        LET ks == C22_TokenLines(1, Len(C22_Lines), any)
        IN  /\ cert.blocks = ks
            /\ cert.certifications = [n \in 1 .. Len(ks) |-> C22_Of(ks[n], any)]

\* C22: every line with a token of a short month name and a year yields one
\* certification, and no other line does; its date is the token, its name
\* the trimmed text before the token, its issuer the next line when there
\* is one without such a token, and empty otherwise.
C22_MonthTokenRule == C22_Rule(FALSE)

\* The same with any capital and two small letters in place of the month
C22_ShapedTokenRule == C22_Rule(TRUE)

\* the example of the claim: name, date and issuer of two lines
C22_Example ==
    /\ cert.pc = "returned"
    /\ cert.text = "AWS Certified Jan 2022\nAmazon Web Services"
    /\ cert.certifications =
           <<Certification("Jan 2022", "AWS Certified", "Amazon Web Services")>>


-----------------------------------------------------------------------------
(* C23: technical skills *)

\* The trimmed, non-empty parts of s between commas
RECURSIVE C23_Items(_)
C23_Items(s) ==
    LET k == find(s, ",")
        head == strip(IF k = 0 THEN s ELSE SubSeq(s, 1, k - 1))
        rest == IF k = 0 THEN << >> ELSE C23_Items(SubSeq(s, k + 1, Len(s)))
    IN  IF head = "" THEN rest ELSE <<head>> \o rest

\* The line the loop is at
C23_Line == strip(skl.lines[skl.i])
C23_Colon == find(C23_Line, ":")
C23_Category == strip(SubSeq(C23_Line, 1, C23_Colon - 1))
C23_After == C23_Items(SubSeq(C23_Line, C23_Colon + 1, Len(C23_Line)))

\* What one line does to the dict: a blank line nothing; a line with a
\* colon sets its category to its items (when it has none, only if always);
\* any other line appends its items to General
C23_LineDoes(always) ==
    IF C23_Line = "" THEN skl'.skills = skl.skills
    ELSE IF C23_Colon # 0
    THEN IF always \/ C23_After # << >>
         THEN /\ Has(skl'.skills, C23_Category)
              /\ At(skl'.skills, C23_Category) = C23_After
              /\ \A k \in Keys(skl.skills) \ {C23_Category} :
                     Has(skl'.skills, k) /\ At(skl'.skills, k) = At(skl.skills, k)
              /\ Keys(skl'.skills) = Keys(skl.skills) \cup {C23_Category}
         ELSE skl'.skills = skl.skills
    ELSE /\ At(skl'.skills, "General") = At(skl.skills, "General") \o C23_Items(C23_Line)
         /\ Keys(skl'.skills) = Keys(skl.skills)
         /\ \A k \in Keys(skl.skills) \ {"General"} :
                At(skl'.skills, k) = At(skl.skills, k)

\* What the return does: General is dropped when it is empty
C23_ReturnDoes ==
    /\ Keys(skl'.skills) =
           Keys(skl.skills) \ (IF At(skl.skills, "General") = << >>
                               THEN {"General"} ELSE {})
    /\ \A k \in Keys(skl'.skills) : At(skl'.skills, k) = At(skl.skills, k)

C23_Steps(always) ==
    /\ skl.pc = "loop" /\ skl'.pc = "loop" => C23_LineDoes(always)
    /\ skl.pc = "loop" /\ skl'.pc = "returned" => C23_ReturnDoes

\* C23: a line with a colon sets the category before the colon to the
\* trimmed, non-empty, comma-separated items after it, in place of what the
\* category held, also when there are no items; a line without a colon
\* appends its items to General; General is absent from the result when it
\* is empty.
C23_ColonLineSetsCategory == [][C23_Steps(TRUE)]_vars

\* The same, but a line with a colon and no items after it changes nothing
C23_ColonLineWithItemsSetsCategory == [][C23_Steps(FALSE)]_vars

\* a category was set twice and General, left empty, is gone
C23_Witness ==
    /\ skl.pc = "returned"
    /\ skl.text = "Languages: Python\nGit\nLanguages: Python, Go\nGeneral: SQL"
    /\ skl.skills = <<[k |-> "General", v |-> <<"SQL">>],
                      [k |-> "Languages", v |-> <<"Python", "Go">>]>>


-----------------------------------------------------------------------------
(* C24: projects *)

C24_Lines == IF proj.pc \in {"idle", "call"} THEN << >> ELSE proj.lines
C24_Line(k) == strip(C24_Lines[k])
C24_HasColon(k) == \E c \in 1 .. Len(C24_Line(k)) : Chr(C24_Line(k), c) = ":"
\* The lines with a colon
C24_ColonLines == { k \in 1 .. Len(C24_Lines) : C24_HasColon(k) }
\* The n-th of them
C24_Nth(n) ==
    CHOOSE k \in C24_ColonLines : Cardinality({ j \in C24_ColonLines : j <= k }) = n
\* Where the first colon of line k stands
C24_Colon(k) ==
    CHOOSE c \in 1 .. Len(C24_Line(k)) :
        /\ Chr(C24_Line(k), c) = ":"
        /\ \A d \in 1 .. c - 1 : Chr(C24_Line(k), d) # ":"
C24_Name(k) == strip(SubSeq(C24_Line(k), 1, C24_Colon(k) - 1))
C24_Seed(k) == strip(SubSeq(C24_Line(k), C24_Colon(k) + 1, Len(C24_Line(k))))
\* The non-blank lines from k on, up to the next line with a colon, each
\* with a space before it
RECURSIVE C24_Following(_)
C24_Following(k) ==
    IF k > Len(C24_Lines) \/ C24_HasColon(k) THEN ""
    ELSE (IF C24_Line(k) = "" THEN "" ELSE " " \o C24_Line(k)) \o C24_Following(k + 1)
C24_Description(k) == strip(C24_Seed(k) \o C24_Following(k + 1))

\* The projects are those of the lines with a colon, one each, in order
C24_OnePerColonLine ==
    /\ Len(proj.projects) = Cardinality(C24_ColonLines)
    /\ \A n \in 1 .. Len(proj.projects) :
           proj.projects[n] = Project(C24_Name(C24_Nth(n)), C24_Description(C24_Nth(n)))

\* C24: the projects returned are those of the lines with a colon, one for
\* each and in their order: the name is the text before the first colon, the
\* description the text after it and the following lines without a colon,
\* joined by spaces; lines before the first colon line are dropped, and a
\* section without a colon gives no project.
C24_ProjectPerColonLine == proj.pc = "returned" => C24_OnePerColonLine

\* The same for sections in which every colon has text before it
C24_ProjectPerNamedColonLine ==
    proj.pc = "returned" /\ (\A k \in C24_ColonLines : C24_Name(k) # "") =>
        C24_OnePerColonLine

\* two projects were returned, the first with a description of two lines
C24_Witness ==
    /\ proj.pc = "returned"
    /\ proj.text = "intro\nShop: web\nin Go\n Blog : \n  and more "
    /\ proj.projects = <<Project("Shop", "web in Go"), Project("Blog", "and more")>>


-----------------------------------------------------------------------------
(* C25: the location of the contact *)

C25_AllLines == split(cont.text, "\n")
\* The lines among the first n that name a country or region of the list
C25_Named(n) ==
    { k \in 1 .. Min(n, Len(C25_AllLines)) :
          search(location_pattern, C25_AllLines[k]).ok }
\* The location is the first of them, stripped; None when there is none
C25_LocationIsFirstOf(n) ==
    cont.contact.location =
        IF C25_Named(n) = {} THEN None
        ELSE Some(strip(C25_AllLines[Least(C25_Named(n))]))

\* C25: the location returned is the first line of the whole text that
\* matches the list of countries and regions, also when that line comes
\* after the 15th line.
C25_LocationFromWholeText ==
    cont.pc = "returned" => C25_LocationIsFirstOf(Len(C25_AllLines))

\* The location returned is the first such line among the first 15 lines
C25_LocationFromFirstLines ==
    cont.pc = "returned" => C25_LocationIsFirstOf(ContactLines)

\* a location was returned from the 15th line
C25_Witness ==
    /\ cont.pc = "returned"
    /\ C25_Named(Len(C25_AllLines)) = {ContactLines}
    /\ cont.contact.location = Some("Jakarta, Indonesia")

\* the only line with a country is the 16th, and no location was returned
C25_WitnessLate ==
    /\ cont.pc = "returned"
    /\ C25_Named(Len(C25_AllLines)) = {ContactLines + 1}
    /\ cont.contact.location = None


-----------------------------------------------------------------------------
(* C26: the collections and the strings of a returned CVData *)

C26_Collections == FieldSet(CVDataFields) \ OptionalFields
\* A record of a list: its fields but responsibilities are strings
C26_RecordOfStrings(r, fields) ==
    /\ r.t = "dict"
    /\ \A f \in FieldSet(fields) \ {"responsibilities"} :
           Has(r.v, f) /\ At(r.v, f).t = "str"
\* The fields of a CVData, as plain data: no collection is None, and the
\* records of the four lists hold strings
C26_Shaped(fields) ==
    /\ \A f \in C26_Collections : fields[f].t # "none"
    /\ \A n \in 1 .. Len(ClassOf) :
           With(fields[ClassOf[n].k], LAMBDA xs :
               /\ xs.t = "list"
               /\ \A m \in 1 .. Len(xs.v) : C26_RecordOfStrings(xs.v[m], ClassOf[n].v))
\* The fields of a CVData the parse has made
C26_Fresh(cv) ==
    With(dataclass_to_dict(cv).v, LAMBDA d : [f \in FieldSet(CVDataFields) |-> At(d, f)])
\* The fields of the CVData made of a cached value
C26_Cached(value) ==
    With(json_loads(value).v.v, LAMBDA d :
        [f \in FieldSet(CVDataFields) |-> FieldData(d, f)])
\* The collections of cv are those of the fields
C26_Holds(cv, fields) ==
    \A f \in C26_Collections \ Keys(ClassOf) : cv[f] = Untag(fields[f])
\* The values the store may hold: those of the other client, and what
\* parse_cv writes for a file
C26_Values ==
    ForeignValues
        \cup { json_dumps(dataclass_to_dict(f.cv)) : f \in { g \in Files : g.readable } }
\* Those of them a CVData is made of, with that CVData, when its fields
\* are as the claim has them
C26_Rebuilt ==
    { <<v, _reconstruct_cv_data(json_loads(v).v).v>> :
        v \in { w \in C26_Values :
                   /\ json_loads(w).ok
                   /\ _reconstruct_cv_data(json_loads(w).v).ok
                   /\ C26_Shaped(C26_Cached(w))
                   /\ C26_Holds(_reconstruct_cv_data(json_loads(w).v).v,
                                C26_Cached(w)) } }
\* The files whose parse makes a CVData with fields as the claim has them
C26_ShapedFiles ==
    { f \in Files : C26_Shaped(C26_Fresh(f.cv)) /\ C26_Holds(f.cv, C26_Fresh(f.cv)) }
\* The request c returns in this step
C26_Returns(c) ==
    /\ calls'[c].pc = "returned"
    /\ c <= Len(calls) => calls[c].pc # "returned"
\* What it returns was made of the cached value, or by the parse of the file
C26_Step ==
    \A c \in 1 .. Len(calls') :
        C26_Returns(c) =>
            IF calls'[c].hit
            THEN <<redis_get(store, CacheKey(calls'[c].file_hash))[1],
                   calls'[c].cv_data>> \in C26_Rebuilt
            ELSE file \in C26_ShapedFiles /\ calls'[c].cv_data = file.cv

-----------------------------------------------------------------------------
(* C27: the cursors of parse_work_experience *)

\* An outer iteration that emits no record moves i on by one
C27_Skips == work.pc = "loop" /\ work'.pc = "loop" => work'.i = work.i + 1
\* An inner iteration moves j on, or stops the loop
C27_Inner ==
    work.pc = "inner" /\ work'.pc = "inner" =>
        \/ work'.j > work.j /\ ~work'.stop
        \/ work'.j = work.j /\ work'.stop
\* The inner loop starts after the date line, itself not before line i
C27_Enters ==
    work.pc = "loop" /\ work'.pc = "inner" =>
        /\ work'.i = work.i
        /\ work'.date_line_idx >= work.i
        /\ work'.j > work'.date_line_idx
\* An outer iteration that emits a record moves i beyond the date line
C27_Emits ==
    work.pc = "inner" /\ work'.pc = "loop" =>
        /\ Len(work'.experiences) = Len(work.experiences) + 1
        /\ work'.i > work.date_line_idx
        /\ work'.i > work.i
C27_Advance == C27_Skips /\ C27_Inner /\ C27_Enters /\ C27_Emits

\* C27: parse_work_experience terminates on every input: each outer
\* iteration moves the cursor i on, by one when the line is blank or no
\* date line is found and beyond the date line when a record is emitted;
\* each inner iteration moves the cursor j on or stops the loop; and the
\* method returns.
C27_CursorsAdvanceAndItReturns ==
    [][C27_Advance]_vars /\ <>(work.pc = "returned")

\* What is returned is what parse_work_experience has for the text
C27_ReturnsTheExperiences ==
    work.pc = "returned" =>
        work.experiences = parse_work_experience(join("\n", work.lines))

\* it returned two records, the inner loop of the first having taken a
\* line and stopped before the header of the second
C27_Witness ==
    /\ work.pc = "returned"
    /\ work.lines = <<"Jan 2020 ~ Present", "* did", "-", "", "2019-2021">>
    /\ Len(work.experiences) = 2
    /\ work.experiences[1].responsibilities = <<"did">>
    /\ work.i = Len(work.lines) + 1


=============================================================================
